---- MODULE Spec2Model ----
(***************************************************************************)
(* RocketlaneApp (universal_mcp_rocketlane/app.py): a REST client facade.  *)
(* Every operation validates its path identifiers, builds a JSON body, a   *)
(* URL and a query mapping, issues one HTTP call and normalises the        *)
(* response.  _get_headers derives the request headers from the            *)
(* integration's credentials.                                              *)
(*                                                                         *)
(* Python values are encoded as tuples of strings, so that values of       *)
(* different Python types can be compared:                                 *)
(*   None -> <<"None">>, False -> <<"bool","False">>, 0 -> <<"int","0">>,  *)
(*   "x" -> <<"str","x">>, [] -> <<"list">>, {} -> <<"dict">>,             *)
(*   {"k": "v"} -> <<"dict","k","v">>.                                     *)
(* A dict built by the code (query_params, request_body_data, headers) is  *)
(* a function from its keys to encoded values.                             *)
(***************************************************************************)
EXTENDS Integers, Sequences, FiniteSets, TLC

VARIABLES
  base_url,     \* self.base_url
  integration,  \* self.integration: [configured, credentials]
  pc,           \* "idle": the host may invoke; "done": an invocation has ended
  call,         \* the invocation that ended last: [op, args]
  requests,     \* the HTTP requests the invocation issued, in order
  responses,    \* the HTTP responses the invocation received, in order
  outcome,      \* what the invocation gave its caller: a value or an exception
  headers,      \* the header dict _get_headers returned to the invocation
  log,          \* the loguru records the invocation emitted, in order
  last          \* an earlier invocation the host remembers:
                \* [op, args, request, headers, log]

vars ==
  <<base_url, integration, pc, call, requests, responses, outcome, headers, log, last>>

Range(s) == {s[i] : i \in DOMAIN s}

EmptyMap == [k \in {} |-> <<"None">>]

----------------------------------------------------------------------------
(* Python values                                                           *)

None == <<"None">>
PyFalse == <<"bool", "False">>
PyZero == <<"int", "0">>
PyStr(s) == <<"str", s>>

\* bool(v): None, False, 0 and the empty str, list and dict are falsy.
Truthy(v) ==
  /\ v # None
  /\ v # PyFalse
  /\ v # PyZero
  /\ v # PyStr("")
  /\ v # <<"list">>
  /\ v # <<"dict">>

\* a or b
PyAnd(a, b) == IF Truthy(a) THEN b ELSE a
PyOr(a, b) == IF Truthy(a) THEN a ELSE b

\* f"{v}" for the scalar values
Format(v) == IF v = None THEN "None" ELSE v[2]

----------------------------------------------------------------------------
(* The operations: one descriptor per method of RocketlaneApp, read off    *)
(* the method: the client method it calls, its required and optional       *)
(* parameters, the parameters it checks against None, the pieces of its    *)
(* URL after base_url, the (key, parameter) pairs of query_params and of   *)
(* request_body_data, and whether the body is a dict, the raw array        *)
(* argument, or none.                                                      *)

get_time_entry ==
  [name |-> "get_time_entry", method |-> "_get",
   required |-> << "timeEntryId" >>,
   optional |-> << "includeFields", "includeAllFields" >>,
   checks |-> << "timeEntryId" >>,
   path |-> << <<"lit", "/1.0/time-entries/">>, <<"var", "timeEntryId">> >>,
   query |-> << <<"includeFields", "includeFields">>, <<"includeAllFields", "includeAllFields">> >>,
   bodykind |-> "none", bodyarg |-> "",
   body |-> << >>]

update_time_entry ==
  [name |-> "update_time_entry", method |-> "_put",
   required |-> << "timeEntryId" >>,
   optional |-> << "includeFields", "includeAllFields", "timeEntryId_body", "date", "minutes", "activityName",
      "notes", "category", "billable" >>,
   checks |-> << "timeEntryId" >>,
   path |-> << <<"lit", "/1.0/time-entries/">>, <<"var", "timeEntryId">> >>,
   query |-> << <<"includeFields", "includeFields">>, <<"includeAllFields", "includeAllFields">> >>,
   bodykind |-> "dict", bodyarg |-> "",
   body |-> << <<"timeEntryId", "timeEntryId_body">>, <<"date", "date">>, <<"minutes", "minutes">>,
      <<"activityName", "activityName">>, <<"notes", "notes">>, <<"category", "category">>,
      <<"billable", "billable">> >>]

delete_time_entry ==
  [name |-> "delete_time_entry", method |-> "_delete",
   required |-> << "timeEntryId" >>,
   optional |-> << >>,
   checks |-> << "timeEntryId" >>,
   path |-> << <<"lit", "/1.0/time-entries/">>, <<"var", "timeEntryId">> >>,
   query |-> << >>,
   bodykind |-> "none", bodyarg |-> "",
   body |-> << >>]

get_task ==
  [name |-> "get_task", method |-> "_get",
   required |-> << "taskId" >>,
   optional |-> << "includeFields", "includeAllFields" >>,
   checks |-> << "taskId" >>,
   path |-> << <<"lit", "/1.0/tasks/">>, <<"var", "taskId">> >>,
   query |-> << <<"includeFields", "includeFields">>, <<"includeAllFields", "includeAllFields">> >>,
   bodykind |-> "none", bodyarg |-> "",
   body |-> << >>]

update_task ==
  [name |-> "update_task", method |-> "_put",
   required |-> << "taskId" >>,
   optional |-> << "includeFields", "includeAllFields", "taskId_body", "taskName", "taskDescription",
      "taskPrivateNote", "startDate", "dueDate", "effortInMinutes", "progress", "atRisk", "type",
      "fields", "status", "externalReferenceId", "private" >>,
   checks |-> << "taskId" >>,
   path |-> << <<"lit", "/1.0/tasks/">>, <<"var", "taskId">> >>,
   query |-> << <<"includeFields", "includeFields">>, <<"includeAllFields", "includeAllFields">> >>,
   bodykind |-> "dict", bodyarg |-> "",
   body |-> << <<"taskId", "taskId_body">>, <<"taskName", "taskName">>, <<"taskDescription", "taskDescription">>,
      <<"taskPrivateNote", "taskPrivateNote">>, <<"startDate", "startDate">>, <<"dueDate", "dueDate">>,
      <<"effortInMinutes", "effortInMinutes">>, <<"progress", "progress">>, <<"atRisk", "atRisk">>,
      <<"type", "type">>, <<"fields", "fields">>, <<"status", "status">>,
      <<"externalReferenceId", "externalReferenceId">>, <<"private", "private">> >>]

delete_task ==
  [name |-> "delete_task", method |-> "_delete",
   required |-> << "taskId" >>,
   optional |-> << >>,
   checks |-> << "taskId" >>,
   path |-> << <<"lit", "/1.0/tasks/">>, <<"var", "taskId">> >>,
   query |-> << >>,
   bodykind |-> "none", bodyarg |-> "",
   body |-> << >>]

get_space ==
  [name |-> "get_space", method |-> "_get",
   required |-> << "spaceId" >>,
   optional |-> << >>,
   checks |-> << "spaceId" >>,
   path |-> << <<"lit", "/1.0/spaces/">>, <<"var", "spaceId">> >>,
   query |-> << >>,
   bodykind |-> "none", bodyarg |-> "",
   body |-> << >>]

update_space ==
  [name |-> "update_space", method |-> "_put",
   required |-> << "spaceId" >>,
   optional |-> << "spaceName" >>,
   checks |-> << "spaceId" >>,
   path |-> << <<"lit", "/1.0/spaces/">>, <<"var", "spaceId">> >>,
   query |-> << >>,
   bodykind |-> "dict", bodyarg |-> "",
   body |-> << <<"spaceName", "spaceName">> >>]

delete_space ==
  [name |-> "delete_space", method |-> "_delete",
   required |-> << "spaceId" >>,
   optional |-> << >>,
   checks |-> << "spaceId" >>,
   path |-> << <<"lit", "/1.0/spaces/">>, <<"var", "spaceId">> >>,
   query |-> << >>,
   bodykind |-> "none", bodyarg |-> "",
   body |-> << >>]

get_space_document ==
  [name |-> "get_space_document", method |-> "_get",
   required |-> << "spaceDocumentId" >>,
   optional |-> << >>,
   checks |-> << "spaceDocumentId" >>,
   path |-> << <<"lit", "/1.0/space-documents/">>, <<"var", "spaceDocumentId">> >>,
   query |-> << >>,
   bodykind |-> "none", bodyarg |-> "",
   body |-> << >>]

update_space_document ==
  [name |-> "update_space_document", method |-> "_put",
   required |-> << "spaceDocumentId" >>,
   optional |-> << "spaceDocumentId_body", "spaceDocumentName", "url" >>,
   checks |-> << "spaceDocumentId" >>,
   path |-> << <<"lit", "/1.0/space-documents/">>, <<"var", "spaceDocumentId">> >>,
   query |-> << >>,
   bodykind |-> "dict", bodyarg |-> "",
   body |-> << <<"spaceDocumentId", "spaceDocumentId_body">>, <<"spaceDocumentName", "spaceDocumentName">>,
      <<"url", "url">> >>]

delete_space_document ==
  [name |-> "delete_space_document", method |-> "_delete",
   required |-> << "spaceDocumentId" >>,
   optional |-> << >>,
   checks |-> << "spaceDocumentId" >>,
   path |-> << <<"lit", "/1.0/space-documents/">>, <<"var", "spaceDocumentId">> >>,
   query |-> << >>,
   bodykind |-> "none", bodyarg |-> "",
   body |-> << >>]

get_project ==
  [name |-> "get_project", method |-> "_get",
   required |-> << "projectId" >>,
   optional |-> << "includeFields", "includeAllFields" >>,
   checks |-> << "projectId" >>,
   path |-> << <<"lit", "/1.0/projects/">>, <<"var", "projectId">> >>,
   query |-> << <<"includeFields", "includeFields">>, <<"includeAllFields", "includeAllFields">> >>,
   bodykind |-> "none", bodyarg |-> "",
   body |-> << >>]

update_project ==
  [name |-> "update_project", method |-> "_put",
   required |-> << "projectId" >>,
   optional |-> << "includeFields", "includeAllFields", "projectName", "startDate", "dueDate", "visibility", "owner",
      "status", "fields", "annualizedRecurringRevenue", "projectFee", "autoAllocation", "budgetedHours",
      "externalReferenceId" >>,
   checks |-> << "projectId" >>,
   path |-> << <<"lit", "/1.0/projects/">>, <<"var", "projectId">> >>,
   query |-> << <<"includeFields", "includeFields">>, <<"includeAllFields", "includeAllFields">> >>,
   bodykind |-> "dict", bodyarg |-> "",
   body |-> << <<"projectName", "projectName">>, <<"startDate", "startDate">>, <<"dueDate", "dueDate">>,
      <<"visibility", "visibility">>, <<"owner", "owner">>, <<"status", "status">>,
      <<"fields", "fields">>, <<"annualizedRecurringRevenue", "annualizedRecurringRevenue">>,
      <<"projectFee", "projectFee">>, <<"autoAllocation", "autoAllocation">>,
      <<"budgetedHours", "budgetedHours">>, <<"externalReferenceId", "externalReferenceId">> >>]

delete_project ==
  [name |-> "delete_project", method |-> "_delete",
   required |-> << "projectId" >>,
   optional |-> << >>,
   checks |-> << "projectId" >>,
   path |-> << <<"lit", "/1.0/projects/">>, <<"var", "projectId">> >>,
   query |-> << >>,
   bodykind |-> "none", bodyarg |-> "",
   body |-> << >>]

get_phase ==
  [name |-> "get_phase", method |-> "_get",
   required |-> << "phaseId" >>,
   optional |-> << "includeFields", "includeAllFields" >>,
   checks |-> << "phaseId" >>,
   path |-> << <<"lit", "/1.0/phases/">>, <<"var", "phaseId">> >>,
   query |-> << <<"includeFields", "includeFields">>, <<"includeAllFields", "includeAllFields">> >>,
   bodykind |-> "none", bodyarg |-> "",
   body |-> << >>]

update_phase ==
  [name |-> "update_phase", method |-> "_put",
   required |-> << "phaseId" >>,
   optional |-> << "includeFields", "includeAllFields", "phaseName", "startDate", "dueDate", "status", "private" >>,
   checks |-> << "phaseId" >>,
   path |-> << <<"lit", "/1.0/phases/">>, <<"var", "phaseId">> >>,
   query |-> << <<"includeFields", "includeFields">>, <<"includeAllFields", "includeAllFields">> >>,
   bodykind |-> "dict", bodyarg |-> "",
   body |-> << <<"phaseName", "phaseName">>, <<"startDate", "startDate">>, <<"dueDate", "dueDate">>,
      <<"status", "status">>, <<"private", "private">> >>]

delete_phase ==
  [name |-> "delete_phase", method |-> "_delete",
   required |-> << "phaseId" >>,
   optional |-> << >>,
   checks |-> << "phaseId" >>,
   path |-> << <<"lit", "/1.0/phases/">>, <<"var", "phaseId">> >>,
   query |-> << >>,
   bodykind |-> "none", bodyarg |-> "",
   body |-> << >>]

get_field ==
  [name |-> "get_field", method |-> "_get",
   required |-> << "fieldId" >>,
   optional |-> << "includeFields", "includeAllFields" >>,
   checks |-> << "fieldId" >>,
   path |-> << <<"lit", "/1.0/fields/">>, <<"var", "fieldId">> >>,
   query |-> << <<"includeFields", "includeFields">>, <<"includeAllFields", "includeAllFields">> >>,
   bodykind |-> "none", bodyarg |-> "",
   body |-> << >>]

update_field ==
  [name |-> "update_field", method |-> "_put",
   required |-> << "fieldId" >>,
   optional |-> << "includeFields", "includeAllFields", "fieldLabel", "fieldDescription", "enabled", "private" >>,
   checks |-> << "fieldId" >>,
   path |-> << <<"lit", "/1.0/fields/">>, <<"var", "fieldId">> >>,
   query |-> << <<"includeFields", "includeFields">>, <<"includeAllFields", "includeAllFields">> >>,
   bodykind |-> "dict", bodyarg |-> "",
   body |-> << <<"fieldLabel", "fieldLabel">>, <<"fieldDescription", "fieldDescription">>,
      <<"enabled", "enabled">>, <<"private", "private">> >>]

delete_field ==
  [name |-> "delete_field", method |-> "_delete",
   required |-> << "fieldId" >>,
   optional |-> << >>,
   checks |-> << "fieldId" >>,
   path |-> << <<"lit", "/1.0/fields/">>, <<"var", "fieldId">> >>,
   query |-> << >>,
   bodykind |-> "none", bodyarg |-> "",
   body |-> << >>]

get_all_timeoffs ==
  [name |-> "get_all_timeoffs", method |-> "_get",
   required |-> << >>,
   optional |-> << "pageSize", "pageToken", "includeFields", "includeAllFields", "sortBy", "sortOrder", "match",
      "startDate_gt", "startDate_eq", "startDate_lt", "startDate_ge", "startDate_le", "endDate_gt",
      "endDate_eq", "endDate_lt", "endDate_ge", "endDate_le", "type_eq", "type_oneOf", "type_noneOf",
      "userId_eq", "userId_oneOf", "userId_noneOf" >>,
   checks |-> << >>,
   path |-> << <<"lit", "/1.0/time-offs">> >>,
   query |-> << <<"pageSize", "pageSize">>, <<"pageToken", "pageToken">>, <<"includeFields", "includeFields">>,
      <<"includeAllFields", "includeAllFields">>, <<"sortBy", "sortBy">>, <<"sortOrder", "sortOrder">>,
      <<"match", "match">>, <<"startDate.gt", "startDate_gt">>, <<"startDate.eq", "startDate_eq">>,
      <<"startDate.lt", "startDate_lt">>, <<"startDate.ge", "startDate_ge">>,
      <<"startDate.le", "startDate_le">>, <<"endDate.gt", "endDate_gt">>,
      <<"endDate.eq", "endDate_eq">>, <<"endDate.lt", "endDate_lt">>, <<"endDate.ge", "endDate_ge">>,
      <<"endDate.le", "endDate_le">>, <<"type.eq", "type_eq">>, <<"type.oneOf", "type_oneOf">>,
      <<"type.noneOf", "type_noneOf">>, <<"userId.eq", "userId_eq">>,
      <<"userId.oneOf", "userId_oneOf">>, <<"userId.noneOf", "userId_noneOf">> >>,
   bodykind |-> "none", bodyarg |-> "",
   body |-> << >>]

create_timeoff ==
  [name |-> "create_timeoff", method |-> "_post",
   required |-> << >>,
   optional |-> << "includeFields", "includeAllFields", "timeOffId", "user", "note", "startDate", "endDate", "type",
      "notifyUsers", "durationInMinutes" >>,
   checks |-> << >>,
   path |-> << <<"lit", "/1.0/time-offs">> >>,
   query |-> << <<"includeFields", "includeFields">>, <<"includeAllFields", "includeAllFields">> >>,
   bodykind |-> "dict", bodyarg |-> "",
   body |-> << <<"timeOffId", "timeOffId">>, <<"user", "user">>, <<"note", "note">>,
      <<"startDate", "startDate">>, <<"endDate", "endDate">>, <<"type", "type">>,
      <<"notifyUsers", "notifyUsers">>, <<"durationInMinutes", "durationInMinutes">> >>]

get_all_time_entries ==
  [name |-> "get_all_time_entries", method |-> "_get",
   required |-> << >>,
   optional |-> << "pageSize", "pageToken", "includeFields", "sortBy", "sortOrder", "match", "date_gt", "date_eq",
      "date_lt", "date_ge", "date_le", "project_eq", "projectId_eq", "task_eq", "taskId_eq",
      "taskId_oneOf", "taskId_noneOf", "projectPhase_eq", "category_eq", "user_eq", "sourceType_eq",
      "activityName_eq", "activityName_cn", "activityName_nc", "approvalStatus_eq", "approvedBy_eq",
      "approvedAt_eq", "approvedAt_gt", "approvedAt_ge", "approvedAt_lt", "approvedAt_le",
      "billable_eq", "includeDeleted_eq", "createdAt_gt", "createdAt_eq", "createdAt_lt",
      "createdAt_ge", "createdAt_le", "updatedAt_gt", "updatedAt_eq", "updatedAt_lt", "updatedAt_ge",
      "updatedAt_le" >>,
   checks |-> << >>,
   path |-> << <<"lit", "/1.0/time-entries">> >>,
   query |-> << <<"pageSize", "pageSize">>, <<"pageToken", "pageToken">>, <<"includeFields", "includeFields">>,
      <<"sortBy", "sortBy">>, <<"sortOrder", "sortOrder">>, <<"match", "match">>,
      <<"date.gt", "date_gt">>, <<"date.eq", "date_eq">>, <<"date.lt", "date_lt">>,
      <<"date.ge", "date_ge">>, <<"date.le", "date_le">>, <<"project.eq", "project_eq">>,
      <<"projectId.eq", "projectId_eq">>, <<"task.eq", "task_eq">>, <<"taskId.eq", "taskId_eq">>,
      <<"taskId.oneOf", "taskId_oneOf">>, <<"taskId.noneOf", "taskId_noneOf">>,
      <<"projectPhase.eq", "projectPhase_eq">>, <<"category.eq", "category_eq">>,
      <<"user.eq", "user_eq">>, <<"sourceType.eq", "sourceType_eq">>,
      <<"activityName.eq", "activityName_eq">>, <<"activityName.cn", "activityName_cn">>,
      <<"activityName.nc", "activityName_nc">>, <<"approvalStatus.eq", "approvalStatus_eq">>,
      <<"approvedBy.eq", "approvedBy_eq">>, <<"approvedAt.eq", "approvedAt_eq">>,
      <<"approvedAt.gt", "approvedAt_gt">>, <<"approvedAt.ge", "approvedAt_ge">>,
      <<"approvedAt.lt", "approvedAt_lt">>, <<"approvedAt.le", "approvedAt_le">>,
      <<"billable.eq", "billable_eq">>, <<"includeDeleted.eq", "includeDeleted_eq">>,
      <<"createdAt.gt", "createdAt_gt">>, <<"createdAt.eq", "createdAt_eq">>,
      <<"createdAt.lt", "createdAt_lt">>, <<"createdAt.ge", "createdAt_ge">>,
      <<"createdAt.le", "createdAt_le">>, <<"updatedAt.gt", "updatedAt_gt">>,
      <<"updatedAt.eq", "updatedAt_eq">>, <<"updatedAt.lt", "updatedAt_lt">>,
      <<"updatedAt.ge", "updatedAt_ge">>, <<"updatedAt.le", "updatedAt_le">> >>,
   bodykind |-> "none", bodyarg |-> "",
   body |-> << >>]

create_time_entry ==
  [name |-> "create_time_entry", method |-> "_post",
   required |-> << >>,
   optional |-> << "includeFields", "includeAllFields", "timeEntryId", "date", "minutes", "activityName", "project",
      "task", "projectPhase", "billable", "user", "notes", "category" >>,
   checks |-> << >>,
   path |-> << <<"lit", "/1.0/time-entries">> >>,
   query |-> << <<"includeFields", "includeFields">>, <<"includeAllFields", "includeAllFields">> >>,
   bodykind |-> "dict", bodyarg |-> "",
   body |-> << <<"timeEntryId", "timeEntryId">>, <<"date", "date">>, <<"minutes", "minutes">>,
      <<"activityName", "activityName">>, <<"project", "project">>, <<"task", "task">>,
      <<"projectPhase", "projectPhase">>, <<"billable", "billable">>, <<"user", "user">>,
      <<"notes", "notes">>, <<"category", "category">> >>]

remove_followers_from_task ==
  [name |-> "remove_followers_from_task", method |-> "_post",
   required |-> << "taskId" >>,
   optional |-> << "members" >>,
   checks |-> << "taskId" >>,
   path |-> << <<"lit", "/1.0/tasks/">>, <<"var", "taskId">>, <<"lit", "/remove-followers">> >>,
   query |-> << >>,
   bodykind |-> "dict", bodyarg |-> "",
   body |-> << <<"members", "members">> >>]

remove_dependencies_from_task ==
  [name |-> "remove_dependencies_from_task", method |-> "_post",
   required |-> << "taskId" >>,
   optional |-> << "dependencies" >>,
   checks |-> << "taskId" >>,
   path |-> << <<"lit", "/1.0/tasks/">>, <<"var", "taskId">>, <<"lit", "/remove-dependencies">> >>,
   query |-> << >>,
   bodykind |-> "dict", bodyarg |-> "",
   body |-> << <<"dependencies", "dependencies">> >>]

remove_assignees_from_task ==
  [name |-> "remove_assignees_from_task", method |-> "_post",
   required |-> << "taskId" >>,
   optional |-> << "members", "placeholders" >>,
   checks |-> << "taskId" >>,
   path |-> << <<"lit", "/1.0/tasks/">>, <<"var", "taskId">>, <<"lit", "/remove-assignees">> >>,
   query |-> << >>,
   bodykind |-> "dict", bodyarg |-> "",
   body |-> << <<"members", "members">>, <<"placeholders", "placeholders">> >>]

move_task_to_given_phase ==
  [name |-> "move_task_to_given_phase", method |-> "_post",
   required |-> << "taskId" >>,
   optional |-> << "phase" >>,
   checks |-> << "taskId" >>,
   path |-> << <<"lit", "/1.0/tasks/">>, <<"var", "taskId">>, <<"lit", "/move-phase">> >>,
   query |-> << >>,
   bodykind |-> "dict", bodyarg |-> "",
   body |-> << <<"phase", "phase">> >>]

add_followers_to_task ==
  [name |-> "add_followers_to_task", method |-> "_post",
   required |-> << "taskId" >>,
   optional |-> << "members" >>,
   checks |-> << "taskId" >>,
   path |-> << <<"lit", "/1.0/tasks/">>, <<"var", "taskId">>, <<"lit", "/add-followers">> >>,
   query |-> << >>,
   bodykind |-> "dict", bodyarg |-> "",
   body |-> << <<"members", "members">> >>]

add_dependencies_to_task ==
  [name |-> "add_dependencies_to_task", method |-> "_post",
   required |-> << "taskId" >>,
   optional |-> << "dependencies" >>,
   checks |-> << "taskId" >>,
   path |-> << <<"lit", "/1.0/tasks/">>, <<"var", "taskId">>, <<"lit", "/add-dependencies">> >>,
   query |-> << >>,
   bodykind |-> "dict", bodyarg |-> "",
   body |-> << <<"dependencies", "dependencies">> >>]

add_assignee_to_task ==
  [name |-> "add_assignee_to_task", method |-> "_post",
   required |-> << "taskId" >>,
   optional |-> << "members", "placeholders" >>,
   checks |-> << "taskId" >>,
   path |-> << <<"lit", "/1.0/tasks/">>, <<"var", "taskId">>, <<"lit", "/add-assignees">> >>,
   query |-> << >>,
   bodykind |-> "dict", bodyarg |-> "",
   body |-> << <<"members", "members">>, <<"placeholders", "placeholders">> >>]

get_all_tasks ==
  [name |-> "get_all_tasks", method |-> "_get",
   required |-> << >>,
   optional |-> << "pageSize", "pageToken", "includeFields", "includeAllFields", "sortBy", "sortOrder", "match",
      "startDate_gt", "startDate_eq", "startDate_lt", "startDate_ge", "startDate_le", "dueDate_gt",
      "dueDate_eq", "dueDate_lt", "dueDate_ge", "dueDate_le", "startDateActual_gt",
      "startDateActual_eq", "startDateActual_lt", "startDateActual_ge", "startDateActual_le",
      "dueDateActual_gt", "dueDateActual_eq", "dueDateActual_lt", "dueDateActual_ge",
      "dueDateActual_le", "createdAt_gt", "createdAt_eq", "createdAt_lt", "createdAt_ge",
      "createdAt_le", "updatedAt_gt", "updatedAt_eq", "updatedAt_lt", "updatedAt_ge", "updatedAt_le",
      "projectId_eq", "phaseId_eq", "taskName_eq", "taskName_cn", "taskName_nc", "effortInMinutes_eq",
      "effortInMinutes_gt", "effortInMinutes_lt", "progress_eq", "progress_gt", "progress_lt",
      "includeArchive_eq", "task_status_eq", "task_status_oneOf", "task_status_noneOf",
      "project_status_eq", "project_status_oneOf", "project_status_noneOf", "externalReferenceId_eq" >>,
   checks |-> << >>,
   path |-> << <<"lit", "/1.0/tasks">> >>,
   query |-> << <<"pageSize", "pageSize">>, <<"pageToken", "pageToken">>, <<"includeFields", "includeFields">>,
      <<"includeAllFields", "includeAllFields">>, <<"sortBy", "sortBy">>, <<"sortOrder", "sortOrder">>,
      <<"match", "match">>, <<"startDate.gt", "startDate_gt">>, <<"startDate.eq", "startDate_eq">>,
      <<"startDate.lt", "startDate_lt">>, <<"startDate.ge", "startDate_ge">>,
      <<"startDate.le", "startDate_le">>, <<"dueDate.gt", "dueDate_gt">>,
      <<"dueDate.eq", "dueDate_eq">>, <<"dueDate.lt", "dueDate_lt">>, <<"dueDate.ge", "dueDate_ge">>,
      <<"dueDate.le", "dueDate_le">>, <<"startDateActual.gt", "startDateActual_gt">>,
      <<"startDateActual.eq", "startDateActual_eq">>, <<"startDateActual.lt", "startDateActual_lt">>,
      <<"startDateActual.ge", "startDateActual_ge">>, <<"startDateActual.le", "startDateActual_le">>,
      <<"dueDateActual.gt", "dueDateActual_gt">>, <<"dueDateActual.eq", "dueDateActual_eq">>,
      <<"dueDateActual.lt", "dueDateActual_lt">>, <<"dueDateActual.ge", "dueDateActual_ge">>,
      <<"dueDateActual.le", "dueDateActual_le">>, <<"createdAt.gt", "createdAt_gt">>,
      <<"createdAt.eq", "createdAt_eq">>, <<"createdAt.lt", "createdAt_lt">>,
      <<"createdAt.ge", "createdAt_ge">>, <<"createdAt.le", "createdAt_le">>,
      <<"updatedAt.gt", "updatedAt_gt">>, <<"updatedAt.eq", "updatedAt_eq">>,
      <<"updatedAt.lt", "updatedAt_lt">>, <<"updatedAt.ge", "updatedAt_ge">>,
      <<"updatedAt.le", "updatedAt_le">>, <<"projectId.eq", "projectId_eq">>,
      <<"phaseId.eq", "phaseId_eq">>, <<"taskName.eq", "taskName_eq">>,
      <<"taskName.cn", "taskName_cn">>, <<"taskName.nc", "taskName_nc">>,
      <<"effortInMinutes.eq", "effortInMinutes_eq">>, <<"effortInMinutes.gt", "effortInMinutes_gt">>,
      <<"effortInMinutes.lt", "effortInMinutes_lt">>, <<"progress.eq", "progress_eq">>,
      <<"progress.gt", "progress_gt">>, <<"progress.lt", "progress_lt">>,
      <<"includeArchive.eq", "includeArchive_eq">>, <<"task.status.eq", "task_status_eq">>,
      <<"task.status.oneOf", "task_status_oneOf">>, <<"task.status.noneOf", "task_status_noneOf">>,
      <<"project.status.eq", "project_status_eq">>, <<"project.status.oneOf", "project_status_oneOf">>,
      <<"project.status.noneOf", "project_status_noneOf">>,
      <<"externalReferenceId.eq", "externalReferenceId_eq">> >>,
   bodykind |-> "none", bodyarg |-> "",
   body |-> << >>]

create_task ==
  [name |-> "create_task", method |-> "_post",
   required |-> << >>,
   optional |-> << "includeFields", "includeAllFields", "taskId", "taskName", "taskDescription", "taskPrivateNote",
      "startDate", "dueDate", "effortInMinutes", "progress", "atRisk", "type", "project", "phase",
      "status", "fields", "assignees", "followers", "parent", "externalReferenceId", "private" >>,
   checks |-> << >>,
   path |-> << <<"lit", "/1.0/tasks">> >>,
   query |-> << <<"includeFields", "includeFields">>, <<"includeAllFields", "includeAllFields">> >>,
   bodykind |-> "dict", bodyarg |-> "",
   body |-> << <<"taskId", "taskId">>, <<"taskName", "taskName">>, <<"taskDescription", "taskDescription">>,
      <<"taskPrivateNote", "taskPrivateNote">>, <<"startDate", "startDate">>, <<"dueDate", "dueDate">>,
      <<"effortInMinutes", "effortInMinutes">>, <<"progress", "progress">>, <<"atRisk", "atRisk">>,
      <<"type", "type">>, <<"project", "project">>, <<"phase", "phase">>, <<"status", "status">>,
      <<"fields", "fields">>, <<"assignees", "assignees">>, <<"followers", "followers">>,
      <<"parent", "parent">>, <<"externalReferenceId", "externalReferenceId">>,
      <<"private", "private">> >>]

get_all_spaces ==
  [name |-> "get_all_spaces", method |-> "_get",
   required |-> << "projectId" >>,
   optional |-> << "pageSize", "pageToken", "sortBy", "sortOrder", "match", "spaceName_eq", "spaceName_cn",
      "spaceName_nc", "createdAt_gt", "createdAt_eq", "createdAt_lt", "createdAt_ge", "createdAt_le",
      "updatedAt_gt", "updatedAt_eq", "updatedAt_lt", "updatedAt_ge", "updatedAt_le" >>,
   checks |-> << >>,
   path |-> << <<"lit", "/1.0/spaces">> >>,
   query |-> << <<"projectId", "projectId">>, <<"pageSize", "pageSize">>, <<"pageToken", "pageToken">>,
      <<"sortBy", "sortBy">>, <<"sortOrder", "sortOrder">>, <<"match", "match">>,
      <<"spaceName.eq", "spaceName_eq">>, <<"spaceName.cn", "spaceName_cn">>,
      <<"spaceName.nc", "spaceName_nc">>, <<"createdAt.gt", "createdAt_gt">>,
      <<"createdAt.eq", "createdAt_eq">>, <<"createdAt.lt", "createdAt_lt">>,
      <<"createdAt.ge", "createdAt_ge">>, <<"createdAt.le", "createdAt_le">>,
      <<"updatedAt.gt", "updatedAt_gt">>, <<"updatedAt.eq", "updatedAt_eq">>,
      <<"updatedAt.lt", "updatedAt_lt">>, <<"updatedAt.ge", "updatedAt_ge">>,
      <<"updatedAt.le", "updatedAt_le">> >>,
   bodykind |-> "none", bodyarg |-> "",
   body |-> << >>]

create_space ==
  [name |-> "create_space", method |-> "_post",
   required |-> << >>,
   optional |-> << "spaceId", "spaceName", "project", "private" >>,
   checks |-> << >>,
   path |-> << <<"lit", "/1.0/spaces">> >>,
   query |-> << >>,
   bodykind |-> "dict", bodyarg |-> "",
   body |-> << <<"spaceId", "spaceId">>, <<"spaceName", "spaceName">>, <<"project", "project">>,
      <<"private", "private">> >>]

get_all_space_documents ==
  [name |-> "get_all_space_documents", method |-> "_get",
   required |-> << "projectId" >>,
   optional |-> << "pageSize", "pageToken", "sortBy", "sortOrder", "match", "spaceDocumentName_eq",
      "spaceDocumentName_cn", "spaceDocumentName_nc", "createdAt_gt", "createdAt_eq", "createdAt_lt",
      "createdAt_ge", "createdAt_le", "updatedAt_gt", "updatedAt_eq", "updatedAt_lt", "updatedAt_ge",
      "updatedAt_le", "spaceId_eq" >>,
   checks |-> << >>,
   path |-> << <<"lit", "/1.0/space-documents">> >>,
   query |-> << <<"projectId", "projectId">>, <<"pageSize", "pageSize">>, <<"pageToken", "pageToken">>,
      <<"sortBy", "sortBy">>, <<"sortOrder", "sortOrder">>, <<"match", "match">>,
      <<"spaceDocumentName.eq", "spaceDocumentName_eq">>,
      <<"spaceDocumentName.cn", "spaceDocumentName_cn">>,
      <<"spaceDocumentName.nc", "spaceDocumentName_nc">>, <<"createdAt.gt", "createdAt_gt">>,
      <<"createdAt.eq", "createdAt_eq">>, <<"createdAt.lt", "createdAt_lt">>,
      <<"createdAt.ge", "createdAt_ge">>, <<"createdAt.le", "createdAt_le">>,
      <<"updatedAt.gt", "updatedAt_gt">>, <<"updatedAt.eq", "updatedAt_eq">>,
      <<"updatedAt.lt", "updatedAt_lt">>, <<"updatedAt.ge", "updatedAt_ge">>,
      <<"updatedAt.le", "updatedAt_le">>, <<"spaceId.eq", "spaceId_eq">> >>,
   bodykind |-> "none", bodyarg |-> "",
   body |-> << >>]

create_space_document ==
  [name |-> "create_space_document", method |-> "_post",
   required |-> << >>,
   optional |-> << "spaceDocumentId", "spaceDocumentName", "space", "spaceDocumentType", "url", "source" >>,
   checks |-> << >>,
   path |-> << <<"lit", "/1.0/space-documents">> >>,
   query |-> << >>,
   bodykind |-> "dict", bodyarg |-> "",
   body |-> << <<"spaceDocumentId", "spaceDocumentId">>, <<"spaceDocumentName", "spaceDocumentName">>,
      <<"space", "space">>, <<"spaceDocumentType", "spaceDocumentType">>, <<"url", "url">>,
      <<"source", "source">> >>]

unassign_placeholders ==
  [name |-> "unassign_placeholders", method |-> "_post",
   required |-> << "projectId", "items" >>,
   optional |-> << >>,
   checks |-> << "projectId" >>,
   path |-> << <<"lit", "/1.0/projects/">>, <<"var", "projectId">>, <<"lit", "/unassign-placeholders">> >>,
   query |-> << >>,
   bodykind |-> "array", bodyarg |-> "items",
   body |-> << >>]

remove_members ==
  [name |-> "remove_members", method |-> "_post",
   required |-> << "projectId", "members" >>,
   optional |-> << >>,
   checks |-> << "projectId" >>,
   path |-> << <<"lit", "/1.0/projects/">>, <<"var", "projectId">>, <<"lit", "/remove-members">> >>,
   query |-> << >>,
   bodykind |-> "dict", bodyarg |-> "",
   body |-> << <<"members", "members">> >>]

import_template ==
  [name |-> "import_template", method |-> "_post",
   required |-> << "projectId", "items" >>,
   optional |-> << >>,
   checks |-> << "projectId" >>,
   path |-> << <<"lit", "/1.0/projects/">>, <<"var", "projectId">>, <<"lit", "/import-template">> >>,
   query |-> << >>,
   bodykind |-> "array", bodyarg |-> "items",
   body |-> << >>]

assign_placeholders ==
  [name |-> "assign_placeholders", method |-> "_post",
   required |-> << "projectId", "items" >>,
   optional |-> << >>,
   checks |-> << "projectId" >>,
   path |-> << <<"lit", "/1.0/projects/">>, <<"var", "projectId">>, <<"lit", "/assign-placeholders">> >>,
   query |-> << >>,
   bodykind |-> "array", bodyarg |-> "items",
   body |-> << >>]

archive_project ==
  [name |-> "archive_project", method |-> "_post",
   required |-> << "projectId" >>,
   optional |-> << >>,
   checks |-> << "projectId" >>,
   path |-> << <<"lit", "/1.0/projects/">>, <<"var", "projectId">>, <<"lit", "/archive">> >>,
   query |-> << >>,
   bodykind |-> "none", bodyarg |-> "",
   body |-> << >>]

add_members ==
  [name |-> "add_members", method |-> "_post",
   required |-> << "projectId" >>,
   optional |-> << "members", "customers" >>,
   checks |-> << "projectId" >>,
   path |-> << <<"lit", "/1.0/projects/">>, <<"var", "projectId">>, <<"lit", "/add-members">> >>,
   query |-> << >>,
   bodykind |-> "dict", bodyarg |-> "",
   body |-> << <<"members", "members">>, <<"customers", "customers">> >>]

get_all_projects ==
  [name |-> "get_all_projects", method |-> "_get",
   required |-> << >>,
   optional |-> << "pageSize", "pageToken", "includeFields", "includeAllFields", "sortBy", "sortOrder", "match",
      "startDate_gt", "startDate_eq", "startDate_lt", "startDate_ge", "startDate_le", "dueDate_gt",
      "dueDate_eq", "dueDate_lt", "dueDate_ge", "dueDate_le", "startDateActual_gt",
      "startDateActual_eq", "startDateActual_lt", "startDateActual_ge", "startDateActual_le",
      "dueDateActual_gt", "dueDateActual_eq", "dueDateActual_lt", "dueDateActual_ge",
      "dueDateActual_le", "createdAt_gt", "createdAt_eq", "createdAt_lt", "createdAt_ge",
      "createdAt_le", "updatedAt_gt", "updatedAt_eq", "updatedAt_lt", "updatedAt_ge", "updatedAt_le",
      "annualizedRecurringRevenue_eq", "annualizedRecurringRevenue_gt", "annualizedRecurringRevenue_lt",
      "projectFee_eq", "projectFee_gt", "projectFee_lt", "customerId_eq", "customerId_oneOf",
      "customerId_noneOf", "teamMemberId_eq", "teamMemberId_oneOf", "teamMemberId_noneOf",
      "companyId_eq", "companyId_oneOf", "companyId_noneOf", "projectName_eq", "projectName_cn",
      "projectName_nc", "inferredProgress_eq", "contractType_eq", "contractType_oneOf",
      "contractType_noneOf", "budgetedHours_gt", "budgetedHours_eq", "budgetedHours_lt",
      "budgetedHours_ge", "allocatedHours_le", "allocatedHours_gt", "allocatedHours_eq",
      "allocatedHours_lt", "allocatedHours_ge", "customersInvited_gt", "customersInvited_eq",
      "customersInvited_lt", "customersInvited_ge", "customersInvited_le", "customersJoined_gt",
      "customersJoined_eq", "customersJoined_lt", "customersJoined_ge", "customersJoined_le",
      "includeArchive_eq", "status_eq", "status_oneOf", "status_noneOf", "externalReferenceId_eq" >>,
   checks |-> << >>,
   path |-> << <<"lit", "/1.0/projects">> >>,
   query |-> << <<"pageSize", "pageSize">>, <<"pageToken", "pageToken">>, <<"includeFields", "includeFields">>,
      <<"includeAllFields", "includeAllFields">>, <<"sortBy", "sortBy">>, <<"sortOrder", "sortOrder">>,
      <<"match", "match">>, <<"startDate.gt", "startDate_gt">>, <<"startDate.eq", "startDate_eq">>,
      <<"startDate.lt", "startDate_lt">>, <<"startDate.ge", "startDate_ge">>,
      <<"startDate.le", "startDate_le">>, <<"dueDate.gt", "dueDate_gt">>,
      <<"dueDate.eq", "dueDate_eq">>, <<"dueDate.lt", "dueDate_lt">>, <<"dueDate.ge", "dueDate_ge">>,
      <<"dueDate.le", "dueDate_le">>, <<"startDateActual.gt", "startDateActual_gt">>,
      <<"startDateActual.eq", "startDateActual_eq">>, <<"startDateActual.lt", "startDateActual_lt">>,
      <<"startDateActual.ge", "startDateActual_ge">>, <<"startDateActual.le", "startDateActual_le">>,
      <<"dueDateActual.gt", "dueDateActual_gt">>, <<"dueDateActual.eq", "dueDateActual_eq">>,
      <<"dueDateActual.lt", "dueDateActual_lt">>, <<"dueDateActual.ge", "dueDateActual_ge">>,
      <<"dueDateActual.le", "dueDateActual_le">>, <<"createdAt.gt", "createdAt_gt">>,
      <<"createdAt.eq", "createdAt_eq">>, <<"createdAt.lt", "createdAt_lt">>,
      <<"createdAt.ge", "createdAt_ge">>, <<"createdAt.le", "createdAt_le">>,
      <<"updatedAt.gt", "updatedAt_gt">>, <<"updatedAt.eq", "updatedAt_eq">>,
      <<"updatedAt.lt", "updatedAt_lt">>, <<"updatedAt.ge", "updatedAt_ge">>,
      <<"updatedAt.le", "updatedAt_le">>,
      <<"annualizedRecurringRevenue.eq", "annualizedRecurringRevenue_eq">>,
      <<"annualizedRecurringRevenue.gt", "annualizedRecurringRevenue_gt">>,
      <<"annualizedRecurringRevenue.lt", "annualizedRecurringRevenue_lt">>,
      <<"projectFee.eq", "projectFee_eq">>, <<"projectFee.gt", "projectFee_gt">>,
      <<"projectFee.lt", "projectFee_lt">>, <<"customerId.eq", "customerId_eq">>,
      <<"customerId.oneOf", "customerId_oneOf">>, <<"customerId.noneOf", "customerId_noneOf">>,
      <<"teamMemberId.eq", "teamMemberId_eq">>, <<"teamMemberId.oneOf", "teamMemberId_oneOf">>,
      <<"teamMemberId.noneOf", "teamMemberId_noneOf">>, <<"companyId.eq", "companyId_eq">>,
      <<"companyId.oneOf", "companyId_oneOf">>, <<"companyId.noneOf", "companyId_noneOf">>,
      <<"projectName.eq", "projectName_eq">>, <<"projectName.cn", "projectName_cn">>,
      <<"projectName.nc", "projectName_nc">>, <<"inferredProgress.eq", "inferredProgress_eq">>,
      <<"contractType.eq", "contractType_eq">>, <<"contractType.oneOf", "contractType_oneOf">>,
      <<"contractType.noneOf", "contractType_noneOf">>, <<"budgetedHours.gt", "budgetedHours_gt">>,
      <<"budgetedHours.eq", "budgetedHours_eq">>, <<"budgetedHours.lt", "budgetedHours_lt">>,
      <<"budgetedHours.ge", "budgetedHours_ge">>, <<"allocatedHours.le", "allocatedHours_le">>,
      <<"allocatedHours.gt", "allocatedHours_gt">>, <<"allocatedHours.eq", "allocatedHours_eq">>,
      <<"allocatedHours.lt", "allocatedHours_lt">>, <<"allocatedHours.ge", "allocatedHours_ge">>,
      <<"customersInvited.gt", "customersInvited_gt">>,
      <<"customersInvited.eq", "customersInvited_eq">>,
      <<"customersInvited.lt", "customersInvited_lt">>,
      <<"customersInvited.ge", "customersInvited_ge">>,
      <<"customersInvited.le", "customersInvited_le">>, <<"customersJoined.gt", "customersJoined_gt">>,
      <<"customersJoined.eq", "customersJoined_eq">>, <<"customersJoined.lt", "customersJoined_lt">>,
      <<"customersJoined.ge", "customersJoined_ge">>, <<"customersJoined.le", "customersJoined_le">>,
      <<"includeArchive.eq", "includeArchive_eq">>, <<"status.eq", "status_eq">>,
      <<"status.oneOf", "status_oneOf">>, <<"status.noneOf", "status_noneOf">>,
      <<"externalReferenceId.eq", "externalReferenceId_eq">> >>,
   bodykind |-> "none", bodyarg |-> "",
   body |-> << >>]

create_project ==
  [name |-> "create_project", method |-> "_post",
   required |-> << >>,
   optional |-> << "includeFields", "includeAllFields", "projectId", "projectName", "startDate", "dueDate",
      "visibility", "owner", "teamMembers", "status", "fields", "customer", "partners", "sources",
      "assignProjectOwner", "placeholders", "annualizedRecurringRevenue", "projectFee",
      "autoAllocation", "autoCreateCompany", "budgetedHours", "financials", "currency",
      "externalReferenceId" >>,
   checks |-> << >>,
   path |-> << <<"lit", "/1.0/projects">> >>,
   query |-> << <<"includeFields", "includeFields">>, <<"includeAllFields", "includeAllFields">> >>,
   bodykind |-> "dict", bodyarg |-> "",
   body |-> << <<"projectId", "projectId">>, <<"projectName", "projectName">>, <<"startDate", "startDate">>,
      <<"dueDate", "dueDate">>, <<"visibility", "visibility">>, <<"owner", "owner">>,
      <<"teamMembers", "teamMembers">>, <<"status", "status">>, <<"fields", "fields">>,
      <<"customer", "customer">>, <<"partners", "partners">>, <<"sources", "sources">>,
      <<"assignProjectOwner", "assignProjectOwner">>, <<"placeholders", "placeholders">>,
      <<"annualizedRecurringRevenue", "annualizedRecurringRevenue">>, <<"projectFee", "projectFee">>,
      <<"autoAllocation", "autoAllocation">>, <<"autoCreateCompany", "autoCreateCompany">>,
      <<"budgetedHours", "budgetedHours">>, <<"financials", "financials">>, <<"currency", "currency">>,
      <<"externalReferenceId", "externalReferenceId">> >>]

get_all_phases ==
  [name |-> "get_all_phases", method |-> "_get",
   required |-> << "projectId" >>,
   optional |-> << "pageSize", "pageToken", "includeFields", "includeAllFields", "sortBy", "sortOrder", "match",
      "startDate_gt", "startDate_eq", "startDate_lt", "startDate_ge", "startDate_le", "dueDate_gt",
      "dueDate_eq", "dueDate_lt", "dueDate_ge", "dueDate_le", "startDateActual_gt",
      "startDateActual_eq", "startDateActual_lt", "startDateActual_ge", "startDateActual_le",
      "dueDateActual_gt", "dueDateActual_eq", "dueDateActual_lt", "dueDateActual_ge",
      "dueDateActual_le", "createdAt_gt", "createdAt_eq", "createdAt_lt", "createdAt_ge",
      "createdAt_le", "updatedAt_gt", "updatedAt_eq", "updatedAt_lt", "updatedAt_ge", "updatedAt_le",
      "phaseName_eq", "phaseName_cn", "phaseName_nc" >>,
   checks |-> << >>,
   path |-> << <<"lit", "/1.0/phases">> >>,
   query |-> << <<"projectId", "projectId">>, <<"pageSize", "pageSize">>, <<"pageToken", "pageToken">>,
      <<"includeFields", "includeFields">>, <<"includeAllFields", "includeAllFields">>,
      <<"sortBy", "sortBy">>, <<"sortOrder", "sortOrder">>, <<"match", "match">>,
      <<"startDate.gt", "startDate_gt">>, <<"startDate.eq", "startDate_eq">>,
      <<"startDate.lt", "startDate_lt">>, <<"startDate.ge", "startDate_ge">>,
      <<"startDate.le", "startDate_le">>, <<"dueDate.gt", "dueDate_gt">>,
      <<"dueDate.eq", "dueDate_eq">>, <<"dueDate.lt", "dueDate_lt">>, <<"dueDate.ge", "dueDate_ge">>,
      <<"dueDate.le", "dueDate_le">>, <<"startDateActual.gt", "startDateActual_gt">>,
      <<"startDateActual.eq", "startDateActual_eq">>, <<"startDateActual.lt", "startDateActual_lt">>,
      <<"startDateActual.ge", "startDateActual_ge">>, <<"startDateActual.le", "startDateActual_le">>,
      <<"dueDateActual.gt", "dueDateActual_gt">>, <<"dueDateActual.eq", "dueDateActual_eq">>,
      <<"dueDateActual.lt", "dueDateActual_lt">>, <<"dueDateActual.ge", "dueDateActual_ge">>,
      <<"dueDateActual.le", "dueDateActual_le">>, <<"createdAt.gt", "createdAt_gt">>,
      <<"createdAt.eq", "createdAt_eq">>, <<"createdAt.lt", "createdAt_lt">>,
      <<"createdAt.ge", "createdAt_ge">>, <<"createdAt.le", "createdAt_le">>,
      <<"updatedAt.gt", "updatedAt_gt">>, <<"updatedAt.eq", "updatedAt_eq">>,
      <<"updatedAt.lt", "updatedAt_lt">>, <<"updatedAt.ge", "updatedAt_ge">>,
      <<"updatedAt.le", "updatedAt_le">>, <<"phaseName.eq", "phaseName_eq">>,
      <<"phaseName.cn", "phaseName_cn">>, <<"phaseName.nc", "phaseName_nc">> >>,
   bodykind |-> "none", bodyarg |-> "",
   body |-> << >>]

create_phase ==
  [name |-> "create_phase", method |-> "_post",
   required |-> << >>,
   optional |-> << "includeFields", "includeAllFields", "phaseId", "phaseName", "project", "startDate", "dueDate",
      "status", "private" >>,
   checks |-> << >>,
   path |-> << <<"lit", "/1.0/phases">> >>,
   query |-> << <<"includeFields", "includeFields">>, <<"includeAllFields", "includeAllFields">> >>,
   bodykind |-> "dict", bodyarg |-> "",
   body |-> << <<"phaseId", "phaseId">>, <<"phaseName", "phaseName">>, <<"project", "project">>,
      <<"startDate", "startDate">>, <<"dueDate", "dueDate">>, <<"status", "status">>,
      <<"private", "private">> >>]

update_field_option ==
  [name |-> "update_field_option", method |-> "_post",
   required |-> << "fieldId" >>,
   optional |-> << "optionValue", "optionColor", "optionLabel" >>,
   checks |-> << "fieldId" >>,
   path |-> << <<"lit", "/1.0/fields/">>, <<"var", "fieldId">>, <<"lit", "/update-option">> >>,
   query |-> << >>,
   bodykind |-> "dict", bodyarg |-> "",
   body |-> << <<"optionValue", "optionValue">>, <<"optionColor", "optionColor">>,
      <<"optionLabel", "optionLabel">> >>]

add_field_option ==
  [name |-> "add_field_option", method |-> "_post",
   required |-> << "fieldId" >>,
   optional |-> << "optionColor", "optionLabel" >>,
   checks |-> << "fieldId" >>,
   path |-> << <<"lit", "/1.0/fields/">>, <<"var", "fieldId">>, <<"lit", "/add-option">> >>,
   query |-> << >>,
   bodykind |-> "dict", bodyarg |-> "",
   body |-> << <<"optionColor", "optionColor">>, <<"optionLabel", "optionLabel">> >>]

get_all_fields ==
  [name |-> "get_all_fields", method |-> "_get",
   required |-> << >>,
   optional |-> << "pageSize", "pageToken", "includeFields", "includeAllFields", "sortBy", "sortOrder", "match",
      "createdAt_gt", "createdAt_eq", "createdAt_lt", "createdAt_ge", "createdAt_le", "updatedAt_gt",
      "updatedAt_eq", "updatedAt_lt", "updatedAt_ge", "updatedAt_le", "objectType_eq", "fieldType_eq",
      "enabled_eq", "private_eq" >>,
   checks |-> << >>,
   path |-> << <<"lit", "/1.0/fields">> >>,
   query |-> << <<"pageSize", "pageSize">>, <<"pageToken", "pageToken">>, <<"includeFields", "includeFields">>,
      <<"includeAllFields", "includeAllFields">>, <<"sortBy", "sortBy">>, <<"sortOrder", "sortOrder">>,
      <<"match", "match">>, <<"createdAt.gt", "createdAt_gt">>, <<"createdAt.eq", "createdAt_eq">>,
      <<"createdAt.lt", "createdAt_lt">>, <<"createdAt.ge", "createdAt_ge">>,
      <<"createdAt.le", "createdAt_le">>, <<"updatedAt.gt", "updatedAt_gt">>,
      <<"updatedAt.eq", "updatedAt_eq">>, <<"updatedAt.lt", "updatedAt_lt">>,
      <<"updatedAt.ge", "updatedAt_ge">>, <<"updatedAt.le", "updatedAt_le">>,
      <<"objectType.eq", "objectType_eq">>, <<"fieldType.eq", "fieldType_eq">>,
      <<"enabled.eq", "enabled_eq">>, <<"private.eq", "private_eq">> >>,
   bodykind |-> "none", bodyarg |-> "",
   body |-> << >>]

create_field ==
  [name |-> "create_field", method |-> "_post",
   required |-> << >>,
   optional |-> << "includeFields", "includeAllFields", "fieldId", "fieldLabel", "fieldDescription", "fieldType",
      "objectType", "fieldOptions", "ratingScale", "enabled", "private" >>,
   checks |-> << >>,
   path |-> << <<"lit", "/1.0/fields">> >>,
   query |-> << <<"includeFields", "includeFields">>, <<"includeAllFields", "includeAllFields">> >>,
   bodykind |-> "dict", bodyarg |-> "",
   body |-> << <<"fieldId", "fieldId">>, <<"fieldLabel", "fieldLabel">>,
      <<"fieldDescription", "fieldDescription">>, <<"fieldType", "fieldType">>,
      <<"objectType", "objectType">>, <<"fieldOptions", "fieldOptions">>,
      <<"ratingScale", "ratingScale">>, <<"enabled", "enabled">>, <<"private", "private">> >>]

get_user ==
  [name |-> "get_user", method |-> "_get",
   required |-> << "userId" >>,
   optional |-> << "includeFields", "includeAllFields" >>,
   checks |-> << "userId" >>,
   path |-> << <<"lit", "/1.0/users/">>, <<"var", "userId">> >>,
   query |-> << <<"includeFields", "includeFields">>, <<"includeAllFields", "includeAllFields">> >>,
   bodykind |-> "none", bodyarg |-> "",
   body |-> << >>]

get_all_users ==
  [name |-> "get_all_users", method |-> "_get",
   required |-> << >>,
   optional |-> << "pageSize", "pageToken", "includeFields", "includeAllFields", "sortBy", "sortOrder", "match",
      "firstName_eq", "firstName_cn", "firstName_nc", "lastName_eq", "lastName_cn", "lastName_nc",
      "email_eq", "email_cn", "email_nc", "status_eq", "status_oneOf", "status_noneOf", "type_eq",
      "type_oneOf", "roleId_eq", "roleId_oneOf", "roleId_noneOf", "permissionId_eq",
      "permissionId_oneOf", "permissionId_noneOf", "capacityInMinutes_eq", "capacityInMinutes_gt",
      "capacityInMinutes_ge", "capacityInMinutes_lt", "capacityInMinutes_le", "createdAt_gt",
      "createdAt_eq", "createdAt_lt", "createdAt_ge", "createdAt_le", "updatedAt_gt", "updatedAt_eq",
      "updatedAt_lt", "updatedAt_ge", "updatedAt_le" >>,
   checks |-> << >>,
   path |-> << <<"lit", "/1.0/users">> >>,
   query |-> << <<"pageSize", "pageSize">>, <<"pageToken", "pageToken">>, <<"includeFields", "includeFields">>,
      <<"includeAllFields", "includeAllFields">>, <<"sortBy", "sortBy">>, <<"sortOrder", "sortOrder">>,
      <<"match", "match">>, <<"firstName.eq", "firstName_eq">>, <<"firstName.cn", "firstName_cn">>,
      <<"firstName.nc", "firstName_nc">>, <<"lastName.eq", "lastName_eq">>,
      <<"lastName.cn", "lastName_cn">>, <<"lastName.nc", "lastName_nc">>, <<"email.eq", "email_eq">>,
      <<"email.cn", "email_cn">>, <<"email.nc", "email_nc">>, <<"status.eq", "status_eq">>,
      <<"status.oneOf", "status_oneOf">>, <<"status.noneOf", "status_noneOf">>,
      <<"type.eq", "type_eq">>, <<"type.oneOf", "type_oneOf">>, <<"roleId.eq", "roleId_eq">>,
      <<"roleId.oneOf", "roleId_oneOf">>, <<"roleId.noneOf", "roleId_noneOf">>,
      <<"permissionId.eq", "permissionId_eq">>, <<"permissionId.oneOf", "permissionId_oneOf">>,
      <<"permissionId.noneOf", "permissionId_noneOf">>,
      <<"capacityInMinutes.eq", "capacityInMinutes_eq">>,
      <<"capacityInMinutes.gt", "capacityInMinutes_gt">>,
      <<"capacityInMinutes.ge", "capacityInMinutes_ge">>,
      <<"capacityInMinutes.lt", "capacityInMinutes_lt">>,
      <<"capacityInMinutes.le", "capacityInMinutes_le">>, <<"createdAt.gt", "createdAt_gt">>,
      <<"createdAt.eq", "createdAt_eq">>, <<"createdAt.lt", "createdAt_lt">>,
      <<"createdAt.ge", "createdAt_ge">>, <<"createdAt.le", "createdAt_le">>,
      <<"updatedAt.gt", "updatedAt_gt">>, <<"updatedAt.eq", "updatedAt_eq">>,
      <<"updatedAt.lt", "updatedAt_lt">>, <<"updatedAt.ge", "updatedAt_ge">>,
      <<"updatedAt.le", "updatedAt_le">> >>,
   bodykind |-> "none", bodyarg |-> "",
   body |-> << >>]

get_timeoff ==
  [name |-> "get_timeoff", method |-> "_get",
   required |-> << "timeOffId" >>,
   optional |-> << "includeFields", "includeAllFields" >>,
   checks |-> << "timeOffId" >>,
   path |-> << <<"lit", "/1.0/time-offs/">>, <<"var", "timeOffId">> >>,
   query |-> << <<"includeFields", "includeFields">>, <<"includeAllFields", "includeAllFields">> >>,
   bodykind |-> "none", bodyarg |-> "",
   body |-> << >>]

delete_timeoff ==
  [name |-> "delete_timeoff", method |-> "_delete",
   required |-> << "timeOffId" >>,
   optional |-> << >>,
   checks |-> << "timeOffId" >>,
   path |-> << <<"lit", "/1.0/time-offs/">>, <<"var", "timeOffId">> >>,
   query |-> << >>,
   bodykind |-> "none", bodyarg |-> "",
   body |-> << >>]

search_time_entries ==
  [name |-> "search_time_entries", method |-> "_get",
   required |-> << >>,
   optional |-> << "pageSize", "pageToken", "includeFields", "includeAllFields", "sortBy", "sortOrder", "match",
      "date_gt", "date_eq", "date_lt", "date_ge", "date_le", "project_eq", "task_eq", "projectPhase_eq",
      "category_eq", "user_eq", "sourceType_eq", "activityName_eq", "activityName_cn",
      "activityName_nc", "approvalStatus_eq" >>,
   checks |-> << >>,
   path |-> << <<"lit", "/1.0/time-entries/search">> >>,
   query |-> << <<"pageSize", "pageSize">>, <<"pageToken", "pageToken">>, <<"includeFields", "includeFields">>,
      <<"includeAllFields", "includeAllFields">>, <<"sortBy", "sortBy">>, <<"sortOrder", "sortOrder">>,
      <<"match", "match">>, <<"date.gt", "date_gt">>, <<"date.eq", "date_eq">>,
      <<"date.lt", "date_lt">>, <<"date.ge", "date_ge">>, <<"date.le", "date_le">>,
      <<"project.eq", "project_eq">>, <<"task.eq", "task_eq">>,
      <<"projectPhase.eq", "projectPhase_eq">>, <<"category.eq", "category_eq">>,
      <<"user.eq", "user_eq">>, <<"sourceType.eq", "sourceType_eq">>,
      <<"activityName.eq", "activityName_eq">>, <<"activityName.cn", "activityName_cn">>,
      <<"activityName.nc", "activityName_nc">>, <<"approvalStatus.eq", "approvalStatus_eq">> >>,
   bodykind |-> "none", bodyarg |-> "",
   body |-> << >>]

get_time_entry_categories ==
  [name |-> "get_time_entry_categories", method |-> "_get",
   required |-> << >>,
   optional |-> << "pageSize", "pageToken" >>,
   checks |-> << >>,
   path |-> << <<"lit", "/1.0/time-entries/categories">> >>,
   query |-> << <<"pageSize", "pageSize">>, <<"pageToken", "pageToken">> >>,
   bodykind |-> "none", bodyarg |-> "",
   body |-> << >>]

get_all_resource_allocations ==
  [name |-> "get_all_resource_allocations", method |-> "_get",
   required |-> << "startDate", "endDate" >>,
   optional |-> << "pageSize", "pageToken", "includeFields", "includeAllFields", "sortBy", "sortOrder", "match",
      "memberId_eq", "memberId_oneOf", "memberId_noneOf", "projectId_eq", "projectId_oneOf",
      "projectId_noneOf", "placeholderId_eq", "placeholderId_oneOf", "placeholderId_noneOf" >>,
   checks |-> << >>,
   path |-> << <<"lit", "/1.0/resource-allocations">> >>,
   query |-> << <<"startDate", "startDate">>, <<"endDate", "endDate">>, <<"pageSize", "pageSize">>,
      <<"pageToken", "pageToken">>, <<"includeFields", "includeFields">>,
      <<"includeAllFields", "includeAllFields">>, <<"sortBy", "sortBy">>, <<"sortOrder", "sortOrder">>,
      <<"match", "match">>, <<"memberId.eq", "memberId_eq">>, <<"memberId.oneOf", "memberId_oneOf">>,
      <<"memberId.noneOf", "memberId_noneOf">>, <<"projectId.eq", "projectId_eq">>,
      <<"projectId.oneOf", "projectId_oneOf">>, <<"projectId.noneOf", "projectId_noneOf">>,
      <<"placeholderId.eq", "placeholderId_eq">>, <<"placeholderId.oneOf", "placeholderId_oneOf">>,
      <<"placeholderId.noneOf", "placeholderId_noneOf">> >>,
   bodykind |-> "none", bodyarg |-> "",
   body |-> << >>]
list_tools ==
  << get_time_entry,
     update_time_entry,
     delete_time_entry,
     get_task,
     update_task,
     delete_task,
     get_space,
     update_space,
     delete_space,
     get_space_document,
     update_space_document,
     delete_space_document,
     get_project,
     update_project,
     delete_project,
     get_phase,
     update_phase,
     delete_phase,
     get_field,
     update_field,
     delete_field,
     get_all_timeoffs,
     create_timeoff,
     get_all_time_entries,
     create_time_entry,
     remove_followers_from_task,
     remove_dependencies_from_task,
     remove_assignees_from_task,
     move_task_to_given_phase,
     add_followers_to_task,
     add_dependencies_to_task,
     add_assignee_to_task,
     get_all_tasks,
     create_task,
     get_all_spaces,
     create_space,
     get_all_space_documents,
     create_space_document,
     unassign_placeholders,
     remove_members,
     import_template,
     assign_placeholders,
     archive_project,
     add_members,
     get_all_projects,
     create_project,
     get_all_phases,
     create_phase,
     update_field_option,
     add_field_option,
     get_all_fields,
     create_field,
     get_user,
     get_all_users,
     get_timeoff,
     delete_timeoff,
     search_time_entries,
     get_time_entry_categories,
     get_all_resource_allocations >>

Operations == Range(list_tools)

OpNames == {o.name : o \in Operations}

OpByName(n) == CHOOSE o \in Operations : o.name = n

Params(op) == Range(op.required) \cup Range(op.optional)

\* The parameters that go into the request body.
BodyParams(op) ==
  {op.body[i][2] : i \in DOMAIN op.body}
    \cup (IF op.bodykind = "array" THEN {op.bodyarg} ELSE {})

\* The parameters that appear in the URL path.
PathParams(op) == {op.path[i][2] : i \in {j \in DOMAIN op.path : op.path[j][1] = "var"}}

----------------------------------------------------------------------------
(* The body of an operation                                                *)

\* if <param> is None: raise ValueError("Missing required parameter ...")
\* The first checked parameter that is None, "" when there is none.
MissingParamUnchecked(op, args) == ""
MissingParamOrEmpty(op, args) ==
  LET bad == {i \in DOMAIN op.checks : args[op.checks[i]] \in {None, PyStr("")}}
  IN IF bad = {} THEN ""
     ELSE op.checks[CHOOSE i \in bad : \A j \in bad : i <= j]
MissingParam(op, args) ==
  LET bad == {i \in DOMAIN op.checks : args[op.checks[i]] = None}
  IN IF bad = {} THEN ""
     ELSE op.checks[CHOOSE i \in bad : \A j \in bad : i <= j]

MissingMessage(p) == "Missing required parameter '" \o p \o "'."

\* "v is not None", the test of both comprehensions
IsSuppliedTruthy(v) == Truthy(v)
IsSupplied(v) == v # None

\* [(key, value), ...] from the (key, parameter) pairs of the descriptor
Bind(pairs, args) == [i \in DOMAIN pairs |-> <<pairs[i][1], args[pairs[i][2]]>>]

\* dict(pairs): a later pair overrides an earlier one with the same key
RECURSIVE DictUpTo(_, _)
DictUpTo(pairs, n) ==
  IF n = 0 THEN EmptyMap
  ELSE (pairs[n][1] :> pairs[n][2]) @@ DictUpTo(pairs, n - 1)

DictOf(pairs) == DictUpTo(pairs, Len(pairs))

KeepSupplied(p) == IsSupplied(p[2])

\* query_params = {k: v for k, v in [...] if v is not None}
BindByName(pairs, args) == [i \in DOMAIN pairs |-> <<pairs[i][2], args[pairs[i][2]]>>]
QueryParamsByName(op, args) == DictOf(SelectSeq(BindByName(op.query, args), KeepSupplied))
QueryParams(op, args) == DictOf(SelectSeq(Bind(op.query, args), KeepSupplied))

\* A list or dict value without the None entries nested in it.
IsNotNone(x) == x # "None"
StripNested(v) == IF v[1] \in {"list", "dict"} THEN SelectSeq(v, IsNotNone) ELSE v

\* request_body_data = {...};
\* request_body_data = {k: v for k, v in request_body_data.items() if v is not None}
BodyDictWithPathIds(op, args) ==
  LET d == DictOf(Bind(op.body, args))
  IN [k \in {x \in DOMAIN d : IsSupplied(d[x])} |-> d[k]]
       @@ [p \in PathParams(op) |-> args[p]]
BodyDictDeep(op, args) ==
  LET d == DictOf(Bind(op.body, args))
  IN [k \in {x \in DOMAIN d : IsSupplied(d[x])} |-> StripNested(d[k])]
BodyDict(op, args) ==
  LET d == DictOf(Bind(op.body, args))
  IN [k \in {x \in DOMAIN d : IsSupplied(d[x])} |-> d[k]]

NoData == [kind |-> "absent", fields |-> EmptyMap, raw |-> None]

\* The data= argument of the client call: absent for _get and _delete, the
\* filtered dict, the array argument as it is, or None (archive_project).
RequestDataStripped(op, args) ==
  IF op.method \in {"_get", "_delete"} THEN NoData
  ELSE IF op.bodykind = "dict"
    THEN [kind |-> "dict", fields |-> BodyDict(op, args), raw |-> None]
  ELSE IF op.bodykind = "array"
    THEN [kind |-> "raw", fields |-> EmptyMap, raw |-> StripNested(args[op.bodyarg])]
  ELSE [kind |-> "raw", fields |-> EmptyMap, raw |-> None]
RequestData(op, args) ==
  IF op.method \in {"_get", "_delete"} THEN NoData
  ELSE IF op.bodykind = "dict"
    THEN [kind |-> "dict", fields |-> BodyDict(op, args), raw |-> None]
  ELSE IF op.bodykind = "array"
    THEN [kind |-> "raw", fields |-> EmptyMap, raw |-> args[op.bodyarg]]
  ELSE [kind |-> "raw", fields |-> EmptyMap, raw |-> None]

RECURSIVE JoinPath(_, _, _)
JoinPath(path, args, i) ==
  IF i > Len(path) THEN ""
  ELSE (IF path[i][1] = "lit" THEN path[i][2] ELSE Format(args[path[i][2]]))
       \o JoinPath(path, args, i + 1)

\* url = f"{self.base_url}/1.0/..."
UrlFromArgument(base, op, args) ==
  IF "url" \in DOMAIN args /\ args["url"][1] = "str"
    THEN Format(args["url"])
    ELSE base \o JoinPath(op.path, args, 1)
Url(base, op, args) == base \o JoinPath(op.path, args, 1)

\* self._get -> GET, self._put -> PUT, self._post -> POST, self._delete -> DELETE
VerbPutAsPost(method) ==
  CASE method = "_get" -> "GET"
    [] method = "_put" -> "POST"
    [] method = "_post" -> "POST"
    [] method = "_delete" -> "DELETE"
Verb(method) ==
  CASE method = "_get" -> "GET"
    [] method = "_put" -> "PUT"
    [] method = "_post" -> "POST"
    [] method = "_delete" -> "DELETE"

\* response = self._<method>(url, data=..., params=query_params, ...)
RequestBodyAfterUrl(base, op, args) ==
  [verb |-> Verb(op.method),
   url |-> Url(base, op, args),
   params |-> QueryParams(op, args),
   data |-> RequestData(op,
              [p \in DOMAIN args |->
                 IF p = "url" THEN PyStr(Url(base, op, args)) ELSE args[p]])]
Request(base, op, args) ==
  [verb |-> Verb(op.method),
   url |-> Url(base, op, args),
   params |-> QueryParams(op, args),
   data |-> RequestData(op, args)]

----------------------------------------------------------------------------
(* The response                                                            *)

\* A response body is a sequence of lexemes: whitespace characters and
\* JSON tokens.
Whitespace == {" ", "\t", "\n", "\r"}

RECURSIVE LStrip(_)
LStrip(s) == IF s # <<>> /\ Head(s) \in Whitespace THEN LStrip(Tail(s)) ELSE s

RECURSIVE RStrip(_)
RStrip(s) ==
  IF s # <<>> /\ s[Len(s)] \in Whitespace THEN RStrip(SubSeq(s, 1, Len(s) - 1)) ELSE s

\* str.strip()
Strip(s) == RStrip(LStrip(s))

\* response.json(): the decoded value, or ValueError (ok = FALSE).  The
\* decoder knows the documents below and rejects every other text.
JsonLoads(text) ==
  LET t == Strip(text)
  IN IF t = <<"{", "\"id\"", ":", "\"7\"", "}">>
       THEN [ok |-> TRUE, value |-> <<"dict", "id", "7">>]
     ELSE IF t = <<"{", "\"nextPageToken\"", ":", "\"p2\"", "}">>
       THEN [ok |-> TRUE, value |-> <<"dict", "nextPageToken", "p2">>]
     ELSE [ok |-> FALSE, value |-> None]

\* response.raise_for_status(): raises for every status that is not 2xx
\* ("HTTPError: Raised when the API request fails (e.g., non-2XX status code)")
RaisesOnlyClientServerErrors(resp) == resp.status_code >= 400
RaisesForStatus(resp) == resp.status_code < 200 \/ resp.status_code > 299

\* response.status_code == 204 or not response.content or not response.text.strip()
NoContentIgnoring204(resp) == resp.content = <<>> \/ Strip(resp.content) = <<>>
NoContent(resp) ==
  \/ resp.status_code = 204
  \/ resp.content = <<>>
  \/ Strip(resp.content) = <<>>

NoOutcome == [kind |-> "none", value |-> None, exc |-> "", msg |-> "", json_called |-> FALSE]

Returns(v, decoded) ==
  [kind |-> "return", value |-> v, exc |-> "", msg |-> "", json_called |-> decoded]

Raises(e, m, decoded) ==
  [kind |-> "raise", value |-> None, exc |-> e, msg |-> m, json_called |-> decoded]

\* try: return response.json()  except ValueError: return None
DecodeDroppingFields(resp) ==
  LET j == JsonLoads(resp.content)
  IN IF j.ok THEN Returns(<<j.value[1]>>, TRUE) ELSE Returns(None, TRUE)
DecodePropagating(resp) ==
  LET j == JsonLoads(resp.content)
  IN IF j.ok THEN Returns(j.value, TRUE) ELSE Raises("JSONDecodeError", "", TRUE)
Decode(resp) ==
  LET j == JsonLoads(resp.content)
  IN IF j.ok THEN Returns(j.value, TRUE) ELSE Returns(None, TRUE)

\* The tail every operation shares, from raise_for_status() to the last return.
NormalizeEmptyFirst(resp) ==
  IF NoContent(resp) THEN Returns(None, FALSE)
  ELSE IF RaisesForStatus(resp) THEN Raises("HTTPStatusError", "", FALSE)
  ELSE Decode(resp)
Normalize(resp) ==
  IF RaisesForStatus(resp) THEN Raises("HTTPStatusError", "", FALSE)
  ELSE IF NoContent(resp) THEN Returns(None, FALSE)
  ELSE Decode(resp)

\* The requests one invocation issues: the single client call of the method.
SendWithRetry(req, resp) == IF RaisesForStatus(resp) THEN <<req, req>> ELSE <<req>>
Send(req, resp) == <<req>>

\* One invocation of an operation: missing is the parameter that failed the
\* None check ("" when none did), req the request built from the arguments,
\* resp the response the server gives to it.
RunOperation(missing, req, resp) ==
  IF missing # ""
    THEN [requests |-> <<>>, responses |-> <<>>,
          outcome |-> Raises("ValueError", MissingMessage(missing), FALSE)]
    ELSE [requests |-> Send(req, resp),
          responses |-> <<resp>>,
          outcome |-> Normalize(resp)]

----------------------------------------------------------------------------
(* _get_headers                                                            *)

\* credentials.get(key)
Get(credentials, key) == IF key \in DOMAIN credentials THEN credentials[key] ELSE None

LogRecord(level, message) == [level |-> level, message |-> message]

DegradedHeaders ==
  [h \in {"Content-Type", "Cache-Control"} |->
     IF h = "Content-Type" THEN PyStr("application/json") ELSE PyStr("no-cache")]

NoIntegrationDegraded(app) ==
  [headers |-> DegradedHeaders, exc |-> "",
   log |-> <<LogRecord("WARNING",
             "RocketlaneApp: No integration configured, returning empty headers.")>>]
NoIntegrationHeaders(app) ==
  [headers |-> EmptyMap, exc |-> "",
   log |-> <<LogRecord("WARNING",
             "RocketlaneApp: No integration configured, returning empty headers.")>>]

AuthHeaders(api_key) ==
  [h \in {"api-key", "Content-Type", "Cache-Control"} |->
     IF h = "api-key" THEN api_key ELSE DegradedHeaders[h]]

\* _get_headers without the "if not api_key" branch.
_get_headers_unchecked(app) ==
  IF ~app.configured THEN NoIntegrationHeaders(app)
  ELSE
    LET credentials == app.credentials
        api_key == PyOr(PyOr(Get(credentials, "api_key"), Get(credentials, "API_KEY")),
                        Get(credentials, "apiKey"))
    IN [headers |-> AuthHeaders(api_key), exc |-> "",
        log |-> <<LogRecord("DEBUG",
            "RocketlaneApp: Using 'api-key' for authentication.")>>]

\* _get_headers looking the names up in the opposite order.
_get_headers_reversed(app) ==
  IF ~app.configured THEN NoIntegrationHeaders(app)
  ELSE
    LET credentials == app.credentials
        api_key == PyOr(PyOr(Get(credentials, "apiKey"), Get(credentials, "API_KEY")),
                        Get(credentials, "api_key"))
    IN IF ~Truthy(api_key)
         THEN [headers |-> DegradedHeaders, exc |-> "",
               log |-> <<LogRecord("ERROR",
                   "RocketlaneApp: API key not found in integration credentials.")>>]
         ELSE [headers |-> AuthHeaders(api_key), exc |-> "",
               log |-> <<LogRecord("DEBUG",
                   "RocketlaneApp: Using 'api-key' for authentication.")>>]

\* _get_headers with "if api_key is None" for "if not api_key".
_get_headers_none_checked(app) ==
  IF ~app.configured THEN NoIntegrationHeaders(app)
  ELSE
    LET credentials == app.credentials
        api_key == PyOr(PyOr(Get(credentials, "api_key"), Get(credentials, "API_KEY")),
                        Get(credentials, "apiKey"))
    IN IF api_key = None
         THEN [headers |-> DegradedHeaders, exc |-> "",
               log |-> <<LogRecord("ERROR",
                   "RocketlaneApp: API key not found in integration credentials.")>>]
         ELSE [headers |-> AuthHeaders(api_key), exc |-> "",
               log |-> <<LogRecord("DEBUG",
                   "RocketlaneApp: Using 'api-key' for authentication.")>>]

\* _get_headers with the key in its debug message.
_get_headers_logging_key(app) ==
  IF ~app.configured THEN NoIntegrationHeaders(app)
  ELSE
    LET credentials == app.credentials
        api_key == PyOr(PyOr(Get(credentials, "api_key"), Get(credentials, "API_KEY")),
                        Get(credentials, "apiKey"))
    IN IF ~Truthy(api_key)
         THEN [headers |-> DegradedHeaders, exc |-> "",
               log |-> <<LogRecord("ERROR",
                   "RocketlaneApp: API key not found in integration credentials.")>>]
         ELSE [headers |-> AuthHeaders(api_key), exc |-> "",
               log |-> <<LogRecord("DEBUG",
                   "RocketlaneApp: Using 'api-key' " \o Format(api_key))>>]

\* _get_headers raising when no key is found.
_get_headers_strict(app) ==
  IF ~app.configured THEN NoIntegrationHeaders(app)
  ELSE
    LET credentials == app.credentials
        api_key == PyOr(PyOr(Get(credentials, "api_key"), Get(credentials, "API_KEY")),
                        Get(credentials, "apiKey"))
    IN IF ~Truthy(api_key)
         THEN [headers |-> EmptyMap, exc |-> "ValueError",
               log |-> <<LogRecord("ERROR",
                   "RocketlaneApp: API key not found in integration credentials.")>>]
         ELSE [headers |-> AuthHeaders(api_key), exc |-> "",
               log |-> <<LogRecord("DEBUG",
                   "RocketlaneApp: Using 'api-key' for authentication.")>>]

\* The result of _get_headers: the header dict, the exception it raises ("":
\* none) and the records it logs.
_get_headers(app) ==
  IF ~app.configured THEN NoIntegrationHeaders(app)
  ELSE
    LET credentials == app.credentials
        api_key == PyOr(PyOr(Get(credentials, "api_key"), Get(credentials, "API_KEY")),
                        Get(credentials, "apiKey"))
    IN IF ~Truthy(api_key)
         THEN [headers |-> DegradedHeaders, exc |-> "",
               log |-> <<LogRecord("ERROR",
                   "RocketlaneApp: API key not found in integration credentials.")>>]
         ELSE [headers |-> AuthHeaders(api_key), exc |-> "",
               log |-> <<LogRecord("DEBUG",
                   "RocketlaneApp: Using 'api-key' for authentication.")>>]

NoHeaders == [headers |-> EmptyMap, exc |-> "", log |-> <<>>]

\* A call of _get_headers made after an earlier call returned prev (NoHeaders
\* when there was none): the body runs again, on the credentials the
\* integration gives at this call.
_get_headers_cached(app, prev) == IF prev # NoHeaders THEN prev ELSE _get_headers(app)
_get_headers_again(app, prev) == _get_headers(app)

\* The headers of a request: the client call of an operation asks
\* _get_headers for them; an invocation that raised before its client call
\* never asks.
ResolveHeadersFirst(app, missing) == _get_headers(app)
ResolveHeaders(app, missing) == IF missing # "" THEN NoHeaders ELSE _get_headers(app)

\* An invocation whose header resolution raised ends there, with no request.
WithHeaders(hdr, run) ==
  IF hdr.exc # ""
    THEN [requests |-> <<>>, responses |-> <<>>, outcome |-> Raises(hdr.exc, "", FALSE)]
    ELSE run

\* self after an operation: no operation assigns an attribute of self.
SelfAfterKeepingUrl(self, req) ==
  [base_url |-> req.url, integration |-> self.integration]
SelfAfterRebased(self, req) ==
  [base_url |-> "https://api.rocketlane.com/api/1.0", integration |-> self.integration]
SelfAfter(self, req) == self

----------------------------------------------------------------------------
(* The inputs                                                              *)

\* What a caller passes for a required parameter: None, the empty string,
\* an identifier.
RequiredValues == {None, PyStr(""), PyStr("42")}

\* What a caller passes for the optional parameter singled out, and for all
\* the other optional parameters of the call.
FocusValues == {None, PyFalse, PyZero, PyStr(""), PyStr("x")}
RestValues == {None, PyStr("y")}

\* The lists and dicts a caller passes for a parameter of the body: empty,
\* and with a None nested inside.
StructuredValues ==
  { <<"list">>, <<"list", "a", "None", "b">>, <<"dict">>, <<"dict", "k", "None">> }

\* The arguments of one call: the parameter f singled out is v, rv gives the
\* other required parameters and every other optional parameter is r.
MakeArgs(op, rv, f, v, r) ==
  [p \in Params(op) |->
     IF p = f THEN v ELSE IF p \in DOMAIN rv THEN rv[p] ELSE r]

\* The parameters to single out: a parameter of the body for a list or a
\* dict, an optional parameter otherwise; "" (none) when v and r agree.
Foci(op, v, r) ==
  IF v \in StructuredValues THEN BodyParams(op)
  ELSE IF v = r \/ op.optional = << >> THEN {""}
  ELSE Range(op.optional)

Statuses == {100, 200, 204, 301, 404, 500}

Bodies ==
  { <<>>,
    <<" ", "\n">>,
    <<"{", "\"id\"">>,
    <<" ", "{", "\"id\"", ":", "\"7\"", "}", "\n">>,
    <<"{", "\"nextPageToken\"", ":", "\"p2\"", "}">> }

Responses == [status_code : Statuses, content : Bodies]

OkResponse ==
  [status_code |-> 200, content |-> <<" ", "{", "\"id\"", ":", "\"7\"", "}", "\n">>]

\* The answers paired with a call.  The statements that handle the response
\* are the same in every method and read none of the arguments, so every
\* response is paired with every operation called with its required
\* parameters alone, and a call that supplies optional parameters is paired
\* with OkResponse.
ResponsesFor(v, r) == IF v = None /\ r = None THEN Responses ELSE {OkResponse}

CredentialKeys == {"api_key", "API_KEY", "apiKey", "access_token"}
CredentialValues == {PyStr(""), PyStr("k1"), PyStr("k2")}

CredentialMappings ==
  UNION {[ks -> CredentialValues] : ks \in SUBSET CredentialKeys}

NoIntegration == [configured |-> FALSE, credentials |-> EmptyMap]

Integrations ==
  {NoIntegration} \cup {[configured |-> TRUE, credentials |-> c] : c \in CredentialMappings}

\* The integration of tests/test_app.py: get_credentials() returns
\* {"access_token": "dummy_access_token"}.
TestIntegration ==
  [configured |-> TRUE,
   credentials |-> [k \in {"access_token"} |-> PyStr("dummy_access_token")]]

----------------------------------------------------------------------------
(* The state machine                                                       *)

NoCall == [op |-> "", args |-> EmptyMap]

NoRequest == [verb |-> "", url |-> "", params |-> EmptyMap, data |-> NoData]

NoLast ==
  [op |-> "", args |-> EmptyMap, request |-> NoRequest, headers |-> EmptyMap, log |-> <<>>]

Idle ==
  /\ pc = "idle"
  /\ call = NoCall
  /\ requests = <<>>
  /\ responses = <<>>
  /\ outcome = NoOutcome
  /\ headers = EmptyMap
  /\ log = <<>>
  /\ last = NoLast

\* __init__: base_url is fixed, the integration is the one passed in.
Init ==
  /\ base_url = "https://api.rocketlane.com/api"
  /\ integration = TestIntegration
  /\ Idle

\* The host invokes one of the tools with keyword arguments; the server
\* answers the request, if one is issued.
Invoke ==
  /\ pc = "idle"
  /\ \E op \in Operations :
     \E rv \in [Range(op.required) -> RequiredValues],
        v \in FocusValues \cup StructuredValues, r \in RestValues :
     \E f \in Foci(op, v, r) :
       LET args == MakeArgs(op, rv, f, v, r)
           missing == MissingParam(op, args)
           req == Request(base_url, op, args)
           hdr == ResolveHeaders(integration, missing)
           self == [base_url |-> base_url, integration |-> integration]
           after == IF missing = "" /\ hdr.exc = "" THEN SelfAfter(self, req) ELSE self
       IN \E resp \in ResponsesFor(v, r) :
            LET run == WithHeaders(hdr, RunOperation(missing, req, resp))
            IN /\ call' = [op |-> op.name, args |-> args]
               /\ requests' = run.requests
               /\ responses' = run.responses
               /\ outcome' = run.outcome
               /\ headers' = hdr.headers
               /\ log' = hdr.log
               /\ base_url' = after.base_url
               /\ integration' = after.integration
  /\ pc' = "done"
  /\ UNCHANGED last

\* What the remembered call of _get_headers returned.
PreviousHeaders ==
  IF last.op = "_get_headers"
    THEN [headers |-> last.headers, exc |-> "", log |-> last.log]
    ELSE NoHeaders

\* A call of _get_headers.
GetHeaders ==
  /\ pc = "idle"
  /\ LET r == _get_headers_again(integration, PreviousHeaders)
     IN /\ headers' = r.headers
        /\ log' = r.log
  /\ call' = [op |-> "_get_headers", args |-> EmptyMap]
  /\ outcome' = LET r == _get_headers_again(integration, PreviousHeaders)
                IN IF r.exc = "" THEN Returns(None, FALSE) ELSE Raises(r.exc, "", FALSE)
  /\ pc' = "done"
  /\ UNCHANGED <<base_url, integration, requests, responses, last>>

\* The host takes the outcome; the next invocation starts afresh.
Return ==
  /\ pc = "done"
  /\ pc' = "idle"
  /\ call' = NoCall
  /\ requests' = <<>>
  /\ responses' = <<>>
  /\ outcome' = NoOutcome
  /\ headers' = EmptyMap
  /\ log' = <<>>
  /\ UNCHANGED <<base_url, integration, last>>

\* The methods the class body defines, in the order of their definition.
ClassMethods ==
  << "__init__", "_get_headers", "get_time_entry", "update_time_entry",
     "delete_time_entry", "get_task", "update_task", "delete_task",
     "get_space", "update_space", "delete_space", "get_space_document",
     "update_space_document", "delete_space_document", "get_project",
     "update_project", "delete_project", "get_phase", "update_phase",
     "delete_phase", "get_field", "update_field", "delete_field",
     "get_all_timeoffs", "create_timeoff", "get_all_time_entries",
     "create_time_entry", "remove_followers_from_task",
     "remove_dependencies_from_task", "remove_assignees_from_task",
     "move_task_to_given_phase", "add_followers_to_task",
     "add_dependencies_to_task", "add_assignee_to_task", "get_all_tasks",
     "create_task", "get_all_spaces", "create_space",
     "get_all_space_documents", "create_space_document",
     "unassign_placeholders", "remove_members", "import_template",
     "assign_placeholders", "archive_project", "add_members",
     "get_all_projects", "create_project", "get_all_phases", "create_phase",
     "update_field_option", "add_field_option", "get_all_fields",
     "create_field", "get_user", "get_all_users", "get_timeoff",
     "delete_timeoff", "search_time_entries", "get_time_entry_categories",
     "get_all_resource_allocations", "list_tools" >>

\* The list list_tools returns, each method shown by its name.
ToolNamesWithHeaders ==
  <<"_get_headers">> \o [i \in DOMAIN list_tools |-> list_tools[i].name]
ToolNames == [i \in DOMAIN list_tools |-> list_tools[i].name]

\* The host enumerates the operations.
ListTools ==
  /\ pc = "idle"
  /\ call' = [op |-> "list_tools", args |-> EmptyMap]
  /\ outcome' = Returns(<<"list">> \o ToolNames, FALSE)
  /\ pc' = "done"
  /\ UNCHANGED <<base_url, integration, requests, responses, headers, log, last>>

Next == Invoke \/ Return \/ ListTools

Spec == Init /\ [][Next]_vars

\* _get_headers alone, over every credential mapping.
InitHeaders ==
  /\ base_url = "https://api.rocketlane.com/api"
  /\ integration \in Integrations
  /\ Idle

NextHeaders == GetHeaders \/ Return

SpecHeaders == InitHeaders /\ [][NextHeaders]_vars

\* An integration whose credentials hold a key.
KeyIntegration ==
  [configured |-> TRUE, credentials |-> [k \in {"api_key"} |-> PyStr("k1")]]

\* The operations, with and without an integration and a key.
InitAuth ==
  /\ base_url = "https://api.rocketlane.com/api"
  /\ integration \in {NoIntegration, TestIntegration, KeyIntegration}
  /\ Idle

SpecAuth == InitAuth /\ [][Next]_vars

\* The calls the host remembers: update_task with its optional parameters
\* left at None.
Remembered(c) ==
  /\ c.op = "update_task"
  /\ \A p \in Range(OpByName(c.op).optional) : c.args[p] = None

\* The host takes the outcome and remembers the call and its request.
Remember ==
  /\ pc = "done"
  /\ last = NoLast
  /\ requests # <<>>
  /\ Remembered(call)
  /\ last' = [op |-> call.op, args |-> call.args, request |-> requests[1],
               headers |-> headers, log |-> log]
  /\ pc' = "idle"
  /\ call' = NoCall
  /\ requests' = <<>>
  /\ responses' = <<>>
  /\ outcome' = NoOutcome
  /\ headers' = EmptyMap
  /\ log' = <<>>
  /\ UNCHANGED <<base_url, integration>>

\* The host remembers a call of _get_headers and what it returned.
RememberHeaders ==
  /\ pc = "done"
  /\ last = NoLast
  /\ call.op = "_get_headers"
  /\ outcome.kind = "return"
  /\ last' = [op |-> call.op, args |-> call.args, request |-> NoRequest,
               headers |-> headers, log |-> log]
  /\ pc' = "idle"
  /\ call' = NoCall
  /\ requests' = <<>>
  /\ responses' = <<>>
  /\ outcome' = NoOutcome
  /\ headers' = EmptyMap
  /\ log' = <<>>
  /\ UNCHANGED <<base_url, integration>>

\* The credential store changes between two calls: from now on
\* get_credentials() returns c.
SetCredentials(c) ==
  /\ pc = "idle"
  /\ integration.configured
  /\ c # integration.credentials
  /\ integration' = [integration EXCEPT !.credentials = c]
  /\ UNCHANGED <<base_url, pc, call, requests, responses, outcome, headers, log, last>>

\* A key is added, replaced or removed, under any of the names.
Rotate == \E c \in CredentialMappings : SetCredentials(c)

\* The value of the key is replaced by another key.
ReplaceKey ==
  /\ last # NoLast
  /\ \E v \in {x \in CredentialValues : Truthy(x)} :
       SetCredentials([k \in {"api_key"} |-> v])

NextRotate == GetHeaders \/ Return \/ RememberHeaders \/ Rotate

\* Calls of _get_headers with the credentials changing in between.
SpecRotate == InitHeaders /\ [][NextRotate]_vars

InitKeys ==
  /\ base_url = "https://api.rocketlane.com/api"
  /\ integration = KeyIntegration
  /\ Idle

NextKeys == Invoke \/ Return \/ Remember \/ ReplaceKey

\* The operations with a key that is replaced between invocations.
SpecKeys == InitKeys /\ [][NextKeys]_vars

NextHistory == Invoke \/ Return \/ Remember \/ ListTools

\* Sequences of invocations, one of which the host remembers.
SpecHistory == Init /\ [][NextHistory]_vars

----------------------------------------------------------------------------
(* Shorthands for the claims                                               *)

\* An operation has been invoked and has ended.
Done == pc = "done" /\ call.op \in OpNames
\* The descriptor of that operation.
Op == OpByName(call.op)
\* The invocation issued a request; Resp is the response to the first one.
Sent == requests # <<>>
Resp == responses[1]
Success == Resp.status_code >= 200 /\ Resp.status_code <= 299
Blank(content) == \A i \in DOMAIN content : content[i] \in Whitespace
StartsWith(s, prefix) == Len(s) >= Len(prefix) /\ SubSeq(s, 1, Len(prefix)) = prefix

----------------------------------------------------------------------------
(* Response normalisation                                                  *)

\* C1: for every operation, a success response that has status 204 (whatever
\* its body), or empty content, or text that is blank once stripped, makes the
\* operation return None without calling response.json().
C1_NoContentReturnsNone ==
  (Done /\ Sent /\ Success
     /\ (Resp.status_code = 204 \/ Resp.content = <<>> \/ Blank(Resp.content)))
  => outcome = Returns(None, FALSE)

\* archive_project answered 204 with a JSON document in the body.
C1_Witness ==
  /\ Done /\ Sent
  /\ call.op = "archive_project"
  /\ Resp.status_code = 204
  /\ JsonLoads(Resp.content).ok
  /\ outcome = Returns(None, FALSE)

C3_Non2xxRaises ==
  (Done /\ Sent /\ (Resp.status_code < 200 \/ Resp.status_code > 299))
  => (outcome.kind = "raise" /\ outcome.exc = "HTTPStatusError"
        /\ ~outcome.json_called)

\* get_time_entry answered 301 with a JSON document and raised.
C3_Witness ==
  /\ Done /\ Sent
  /\ call.op = "get_time_entry"
  /\ Resp.status_code = 301
  /\ JsonLoads(Resp.content).ok
  /\ outcome.kind = "raise"

----------------------------------------------------------------------------
(* Required parameters                                                     *)

\* The identifiers that operations embed in the URL path.
PathIdentifiers ==
  {"timeEntryId", "taskId", "spaceId", "spaceDocumentId", "projectId", "phaseId",
   "fieldId", "userId", "timeOffId"}

\* C4: an operation that embeds an identifier in the URL path, called with
\* that identifier None, raises ValueError naming the parameter and issues no
\* HTTP request; and the identifiers embedded in paths are the nine listed.
C4_MissingPathIdRaises ==
  Done =>
    /\ PathParams(Op) \subseteq PathIdentifiers
    /\ \A p \in PathParams(Op) :
         call.args[p] = None =>
           /\ outcome.kind = "raise"
           /\ outcome.exc = "ValueError"
           /\ outcome.msg = "Missing required parameter '" \o p \o "'."
           /\ requests = <<>>

\* unassign_placeholders(projectId=None, items=...) raised and sent nothing.
C4_Witness ==
  /\ Done
  /\ call.op = "unassign_placeholders"
  /\ call.args["projectId"] = None
  /\ call.args["items"] # None
  /\ outcome.exc = "ValueError"
  /\ requests = <<>>

\* C5 (as claimed): for all operations, a required identifier that is None
\* makes the call raise locally with no HTTP request issued; this includes
\* the required arguments sent as query parameters: projectId of
\* get_all_spaces, get_all_space_documents and get_all_phases, startDate and
\* endDate of get_all_resource_allocations.
RequiredIdentifiers == PathIdentifiers \cup {"startDate", "endDate"}

C5_MissingRequiredRaises ==
  (Done /\ \E p \in Range(Op.required) \cap RequiredIdentifiers : call.args[p] = None)
  => (outcome.kind = "raise" /\ outcome.exc = "ValueError" /\ requests = <<>>)

\* C6 (as claimed): no operation builds a URL, or issues a request, from a
\* path identifier that is the empty string; such a call fails locally.
C6_EmptyPathIdFailsLocally ==
  (Done /\ \E p \in PathParams(Op) : call.args[p] = PyStr(""))
  => (requests = <<>> /\ outcome.kind = "raise")

\* C6 (amended): the local check on a path identifier is a None check.  An
\* operation with a path identifier issues its request if and only if the
\* identifier is not None; the empty string passes the check, and get_task
\* and delete_task then request the URL that ends in the empty segment.
C6_PathIdCheckedAgainstNoneOnly ==
  (Done /\ PathParams(Op) # {}) =>
    /\ Sent <=> (\A p \in PathParams(Op) : call.args[p] # None)
    /\ ~Sent => outcome.exc = "ValueError"
    /\ (call.op \in {"get_task", "delete_task"} /\ call.args["taskId"] = PyStr(""))
         => (Len(requests) = 1
             /\ requests[1].url = "https://api.rocketlane.com/api/1.0/tasks/")

\* delete_task(taskId="") sent DELETE .../1.0/tasks/ .
C6_Witness ==
  /\ Done /\ Sent
  /\ call.op = "delete_task"
  /\ call.args["taskId"] = PyStr("")
  /\ requests[1].verb = "DELETE"
  /\ requests[1].url = "https://api.rocketlane.com/api/1.0/tasks/"

----------------------------------------------------------------------------
(* Optional parameters                                                     *)

\* The pairs of a descriptor whose parameter is optional hold their key in
\* the dict d exactly when the argument is not None, with the argument as
\* the value.
Transmitted(pairs, d) ==
  \A i \in DOMAIN pairs :
    LET key == pairs[i][1]
        p == pairs[i][2]
    IN p \in Range(Op.optional) =>
         /\ (key \in DOMAIN d) <=> (call.args[p] # None)
         /\ (key \in DOMAIN d) => d[key] = call.args[p]

\* C7: for every operation and every optional query or body parameter, the
\* parameter's key is in the query mapping / JSON body of the request, with
\* the caller's value, if and only if the argument is not None: False and 0
\* are transmitted, None is omitted.
C7_OptionalSentIffNotNone ==
  (Done /\ Sent) =>
    /\ Transmitted(Op.query, requests[1].params)
    /\ Op.bodykind = "dict" => Transmitted(Op.body, requests[1].data.fields)
    /\ \A k \in DOMAIN requests[1].params : requests[1].params[k] # None
    /\ \A k \in DOMAIN requests[1].data.fields : requests[1].data.fields[k] # None

\* update_time_entry(..., billable=False) with the other optional parameters
\* left at None: the body is {"billable": False} and the query is empty.
C7_Witness ==
  /\ Done /\ Sent
  /\ call.op = "update_time_entry"
  /\ call.args["billable"] = PyFalse
  /\ call.args["notes"] = None
  /\ DOMAIN requests[1].data.fields = {"billable"}
  /\ requests[1].data.fields["billable"] = PyFalse
  /\ DOMAIN requests[1].params = {}

----------------------------------------------------------------------------
(* One request per invocation                                              *)

\* C8: an invocation whose local check passes issues exactly one HTTP request,
\* whatever the response: none after an error status or an undecodable
\* body, none after a list response that carries a next-page token.
C8_ExactlyOneRequest ==
  (Done /\ outcome.exc # "ValueError") => (Len(requests) = 1 /\ Len(responses) = 1)

\* get_all_projects returned a page with a nextPageToken after one request.
C8_Witness ==
  /\ Done
  /\ call.op = "get_all_projects"
  /\ outcome.kind = "return"
  /\ outcome.value = <<"dict", "nextPageToken", "p2">>
  /\ Len(requests) = 1

----------------------------------------------------------------------------
(* HTTP verbs                                                              *)

\* The verbs the name of an operation stands for.
NamedVerbs(n) ==
  (IF StartsWith(n, "get_") \/ n = "search_time_entries" THEN {"GET"} ELSE {})
  \cup (IF StartsWith(n, "update_") THEN {"PUT"} ELSE {})
  \cup (IF \/ StartsWith(n, "create_") \/ StartsWith(n, "add_")
           \/ StartsWith(n, "remove_") \/ StartsWith(n, "move_")
           \/ StartsWith(n, "assign_") \/ StartsWith(n, "unassign_")
           \/ n \in {"import_template", "archive_project"}
        THEN {"POST"} ELSE {})
  \cup (IF StartsWith(n, "delete_") THEN {"DELETE"} ELSE {})

VerbsUsed == {requests[i].verb : i \in DOMAIN requests}

\* C9 (as claimed): each operation uses one verb, the one its name stands
\* for: get_* and search_time_entries GET, update_* PUT, create_* and the
\* action operations POST, delete_* DELETE.
C9_VerbMatchesName ==
  (Done /\ Sent) => VerbsUsed = NamedVerbs(call.op)

\* C9 (amended): as claimed, except that update_field_option, which posts to
\* the action endpoint /fields/{fieldId}/update-option, issues POST.
C9_VerbMatchesNameButUpdateOption ==
  (Done /\ Sent) =>
    VerbsUsed = IF call.op = "update_field_option" THEN {"POST"}
                ELSE NamedVerbs(call.op)

\* update_field_option sent a POST to .../update-option .
C9_Witness ==
  /\ Done /\ Sent
  /\ call.op = "update_field_option"
  /\ requests[1].verb = "POST"
  /\ requests[1].url = "https://api.rocketlane.com/api/1.0/fields/42/update-option"

----------------------------------------------------------------------------
(* _get_headers                                                            *)

HeadersDone == pc = "done" /\ call.op = "_get_headers"

\* C10: with no integration configured, _get_headers returns the empty
\* header set (no Content-Type, no Cache-Control, no api-key), logs one
\* warning and raises nothing.
C10_NoIntegrationEmptyHeaders ==
  (HeadersDone /\ ~integration.configured) =>
    /\ outcome.kind = "return"
    /\ DOMAIN headers = {}
    /\ Len(log) = 1
    /\ log[1].level = "WARNING"

C10_Witness ==
  /\ HeadersDone
  /\ integration = NoIntegration
  /\ headers = EmptyMap
  /\ log # <<>>

AcceptedNames == {"api_key", "API_KEY", "apiKey"}

Credentials == integration.credentials

\* C11: with an integration whose credential mapping holds none of api_key,
\* API_KEY, apiKey (only access_token, say), _get_headers raises nothing,
\* logs an error and returns exactly Content-Type: application/json and
\* Cache-Control: no-cache, with no api-key field.
C11_NoKeyDegradedHeaders ==
  (HeadersDone /\ integration.configured /\ DOMAIN Credentials \cap AcceptedNames = {})
  => /\ outcome.kind = "return"
     /\ DOMAIN headers = {"Content-Type", "Cache-Control"}
     /\ headers["Content-Type"] = PyStr("application/json")
     /\ headers["Cache-Control"] = PyStr("no-cache")
     /\ Len(log) = 1
     /\ log[1].level = "ERROR"

\* The mapping holds access_token alone.
C11_Witness ==
  /\ HeadersDone
  /\ integration.configured
  /\ DOMAIN Credentials = {"access_token"}
  /\ "api-key" \notin DOMAIN headers
  /\ log # <<>>

\* C12: for every credential mapping that holds a non-empty value under at
\* least one of api_key, API_KEY, apiKey, _get_headers returns a header set
\* whose api-key is a value stored under one of those names, with
\* Content-Type: application/json and Cache-Control: no-cache.
C12_KeyGivesApiKeyHeader ==
  (HeadersDone /\ integration.configured
     /\ \E k \in DOMAIN Credentials \cap AcceptedNames : Credentials[k] # PyStr(""))
  => /\ outcome.kind = "return"
     /\ DOMAIN headers = {"api-key", "Content-Type", "Cache-Control"}
     /\ headers["api-key"] \in {Credentials[k] : k \in DOMAIN Credentials \cap AcceptedNames}
     /\ headers["api-key"] # PyStr("")
     /\ headers["Content-Type"] = PyStr("application/json")
     /\ headers["Cache-Control"] = PyStr("no-cache")

\* The only key is stored under apiKey, next to an empty api_key.
C12_Witness ==
  /\ HeadersDone
  /\ integration.configured
  /\ DOMAIN Credentials = {"api_key", "apiKey"}
  /\ Credentials["api_key"] = PyStr("")
  /\ Credentials["apiKey"] = PyStr("k2")
  /\ headers["api-key"] = PyStr("k2")

----------------------------------------------------------------------------
(* Operations and credentials                                              *)

\* No integration, or credentials with no non-empty value under an accepted
\* name.
KeyMissing ==
  \A k \in DOMAIN Credentials \cap AcceptedNames : ~Truthy(Credentials[k])

RequiredPresent == \A p \in Range(Op.required) : call.args[p] # None

\* C13: with the API key missing, an operation whose required parameters are
\* present still issues its request, without an api-key header; nothing is
\* raised locally for the missing credential, and the caller sees a failure
\* only as the HTTP error raised for an error status of the response.
C13_SoftFailForward ==
  (Done /\ KeyMissing /\ RequiredPresent) =>
    /\ Len(requests) = 1
    /\ "api-key" \notin DOMAIN headers
    /\ outcome.exc \in {"", "HTTPStatusError"}
    /\ (outcome.kind = "raise") <=> ~Success

\* get_time_entry with the credentials of the test fixture: the request went
\* out with the degraded headers, an error was logged, the server answered
\* 404 and the caller got the HTTP error.
C13_Witness ==
  /\ Done /\ Sent
  /\ integration = TestIntegration
  /\ call.op = "get_time_entry"
  /\ headers = DegradedHeaders
  /\ log # <<>> /\ log[1].level = "ERROR"
  /\ Resp.status_code = 404
  /\ outcome.exc = "HTTPStatusError"

----------------------------------------------------------------------------
(* The URL and the state of the application                                *)

\* C14: every request issued by any operation targets a URL that starts with
\* https://api.rocketlane.com/api/1.0/ : the base URL and the version segment
\* are fixed, whatever the caller passes (the url argument of the space
\* document operations included).
C14_FixedHostAndVersion ==
  Done =>
    \A i \in DOMAIN requests :
      StartsWith(requests[i].url, "https://api.rocketlane.com/api/1.0/")

\* create_space_document called with a url argument: the argument went into
\* the body, the request went to the space-documents endpoint.
C14_Witness ==
  /\ Done /\ Sent
  /\ call.op = "create_space_document"
  /\ call.args["url"] = PyStr("x")
  /\ requests[1].url = "https://api.rocketlane.com/api/1.0/space-documents"
  /\ requests[1].data.fields["url"] = PyStr("x")

\* C15: no operation changes the state of the application: after any
\* sequence of invocations, whether they returned, failed the None check or
\* raised the HTTP error, base_url and the integration are the ones set by
\* __init__.
C15_StateUnchanged ==
  /\ base_url = "https://api.rocketlane.com/api"
  /\ integration = TestIntegration

\* A second invocation has raised the HTTP error after an earlier update_task
\* issued its request, and the application is as constructed.
C15_Witness ==
  /\ Done /\ Sent
  /\ last # NoLast
  /\ outcome.exc = "HTTPStatusError"
  /\ base_url = "https://api.rocketlane.com/api"
  /\ integration = TestIntegration

----------------------------------------------------------------------------
(* The value returned                                                      *)

\* C17: for every operation, a response with a success status other than 204
\* and a non-blank body that is valid JSON makes the operation return exactly
\* the decoded value of that body; and whatever an operation returns is
\* either the decoded value of the body or None.
C17_DecodedValueReturnedUnmodified ==
  /\ (Done /\ Sent /\ Success /\ Resp.status_code # 204
        /\ ~Blank(Resp.content) /\ JsonLoads(Resp.content).ok)
     => outcome = Returns(JsonLoads(Resp.content).value, TRUE)
  /\ (Done /\ outcome.kind = "return")
     => \/ outcome.value = None
        \/ (Sent /\ JsonLoads(Resp.content).ok
              /\ outcome.value = JsonLoads(Resp.content).value)
  /\ (Done /\ Sent /\ Resp = OkResponse) => outcome.value = <<"dict", "id", "7">>

\* get_project answered 200 with the document {"id":"7"} between whitespace:
\* the caller got the mapping with the one field id.
C17_Witness ==
  /\ Done /\ Sent
  /\ call.op = "get_project"
  /\ call.args["projectId"] = PyStr("42")
  /\ Resp = OkResponse
  /\ outcome = Returns(<<"dict", "id", "7">>, TRUE)

----------------------------------------------------------------------------
(* list_tools                                                              *)

\* The public operation methods of the class: every method whose name has no
\* leading underscore, list_tools aside.
PublicOperations ==
  {ClassMethods[i] : i \in DOMAIN ClassMethods}
    \ ({m \in Range(ClassMethods) : StartsWith(m, "_")} \cup {"list_tools"})

ListedNames == Range(Tail(outcome.value))

\* C18: list_tools returns exactly the public operation methods of the class,
\* each once; neither _get_headers nor list_tools itself is listed.
C18_ListToolsExactlyPublicOperations ==
  (pc = "done" /\ call.op = "list_tools") =>
    /\ outcome.kind = "return"
    /\ ListedNames = PublicOperations
    /\ Len(Tail(outcome.value)) = Cardinality(ListedNames)
    /\ "_get_headers" \notin ListedNames
    /\ "list_tools" \notin ListedNames

\* list_tools has returned its 59 entries, from get_time_entry to
\* get_all_resource_allocations.
C18_Witness ==
  /\ pc = "done" /\ call.op = "list_tools"
  /\ Len(Tail(outcome.value)) = Cardinality(PublicOperations)
  /\ outcome.value[2] = "get_time_entry"
  /\ outcome.value[Len(outcome.value)] = "get_all_resource_allocations"

----------------------------------------------------------------------------
(* Order of the steps                                                      *)

\* C19: the status check precedes the empty-body check: a response with a
\* 4xx or 5xx status and an empty or blank body makes the operation raise
\* the HTTP error, never return None.
C19_StatusCheckedBeforeEmptyBody ==
  (Done /\ Sent /\ Resp.status_code >= 400 /\ Blank(Resp.content))
  => (outcome.kind = "raise" /\ outcome.exc = "HTTPStatusError")

\* delete_time_entry answered 404 with no body at all.
C19_Witness ==
  /\ Done /\ Sent
  /\ call.op = "delete_time_entry"
  /\ Resp.status_code = 404
  /\ Resp.content = <<>>
  /\ outcome = Raises("HTTPStatusError", "", FALSE)

\* C20: the None check of a path identifier runs before anything else: an
\* invocation that fails it raises ValueError with no credential lookup (no
\* headers were computed), no log record about credentials, and no request.
C20_NoneCheckFirst ==
  (Done /\ \E p \in Range(Op.checks) : call.args[p] = None) =>
    /\ outcome.kind = "raise" /\ outcome.exc = "ValueError"
    /\ headers = EmptyMap
    /\ log = <<>>
    /\ requests = <<>>
    /\ responses = <<>>

\* update_task(taskId=None) on an application whose credentials hold no API
\* key: the call raised and nothing was logged.
C20_Witness ==
  /\ Done
  /\ integration = TestIntegration
  /\ call.op = "update_task"
  /\ call.args["taskId"] = None
  /\ outcome = Raises("ValueError", MissingMessage("taskId"), FALSE)
  /\ headers = EmptyMap /\ log = <<>> /\ requests = <<>>

----------------------------------------------------------------------------
(* The request body                                                        *)

ArrayOperations == {"unassign_placeholders", "import_template", "assign_placeholders"}

\* C21: unassign_placeholders, import_template and assign_placeholders send
\* the items argument itself as the request body, in the caller's order and
\* with the None elements it holds; when items is None the request is still
\* sent, with None for a body.
C21_ArrayBodySentAsGiven ==
  (Done /\ call.op \in ArrayOperations /\ call.args["projectId"] # None) =>
    /\ Len(requests) = 1
    /\ requests[1].data = [kind |-> "raw", fields |-> EmptyMap, raw |-> call.args["items"]]

\* import_template sent a list with a None between two elements, as given.
C21_Witness ==
  /\ Done /\ Sent
  /\ call.op = "import_template"
  /\ call.args["items"] = <<"list", "a", "None", "b">>
  /\ requests[1].data.raw = <<"list", "a", "None", "b">>

\* assign_placeholders(items=None): the request went out with no body.
C21_WitnessNone ==
  /\ Done /\ Sent
  /\ call.op = "assign_placeholders"
  /\ call.args["items"] = None
  /\ requests[1].data.raw = None

----------------------------------------------------------------------------
(* Query keys                                                              *)

\* The name of a parameter with every underscore turned into a dot.
RECURSIVE Dotted(_)
Dotted(s) ==
  IF s = "" THEN ""
  ELSE (IF SubSeq(s, 1, 1) = "_" THEN "." ELSE SubSeq(s, 1, 1))
         \o Dotted(SubSeq(s, 2, Len(s)))

\* For each operation, the dotted names of its query parameters, in the
\* order of the pairs of query_params.
DottedKeys ==
  [n \in OpNames |->
     [i \in DOMAIN OpByName(n).query |-> Dotted(OpByName(n).query[i][2])]]

\* C22: each query parameter is sent under its name with the underscores
\* turned into dots (task_status_eq under task.status.eq; a name without an
\* underscore under itself), no two parameters of an operation share a key,
\* and the query holds exactly the parameters supplied: supplying one filter
\* never overwrites or drops another.
C22_FilterKeysDottedAndInjective ==
  (Done /\ Sent) =>
    LET keys == DottedKeys[call.op]
        sent == requests[1].params
    IN /\ \A i \in DOMAIN keys :
            call.args[Op.query[i][2]] # None
              => (keys[i] \in DOMAIN sent /\ sent[keys[i]] = call.args[Op.query[i][2]])
       /\ \A i, j \in DOMAIN keys : i # j => keys[i] # keys[j]
       /\ DOMAIN sent = {keys[i] : i \in {j \in DOMAIN keys : call.args[Op.query[j][2]] # None}}

\* get_all_tasks with every filter supplied and task_status_eq singled out.
C22_Witness ==
  /\ Done /\ Sent
  /\ call.op = "get_all_tasks"
  /\ call.args["task_status_eq"] = PyStr("x")
  /\ call.args["task_status_oneOf"] = PyStr("y")
  /\ requests[1].params["task.status.eq"] = PyStr("x")
  /\ requests[1].params["task.status.oneOf"] = PyStr("y")
  /\ requests[1].params["startDate.gt"] = PyStr("y")
  /\ Cardinality(DOMAIN requests[1].params) = Len(Op.query)

----------------------------------------------------------------------------
(* Identifiers and url in the body                                         *)

\* The operations with an identifier in the path and one in the body: the
\* path before the identifier, the parameter of the path, the key of the
\* body and the parameter that fills it.
TwoIdentifiers ==
  { <<"update_time_entry", "/1.0/time-entries/", "timeEntryId", "timeEntryId_body">>,
    <<"update_task", "/1.0/tasks/", "taskId", "taskId_body">>,
    <<"update_space_document", "/1.0/space-documents/", "spaceDocumentId", "spaceDocumentId_body">> }

\* C23: in update_time_entry, update_task and update_space_document the URL
\* path uses the required identifier, the body key of the same name carries
\* the *_body argument alone, and is absent when that argument is None.
C23_PathIdAndBodyIdIndependent ==
  \A e \in TwoIdentifiers :
    (Done /\ Sent /\ call.op = e[1]) =>
      /\ requests[1].url = base_url \o e[2] \o Format(call.args[e[3]])
      /\ e[3] \in DOMAIN requests[1].data.fields <=> call.args[e[4]] # None
      /\ call.args[e[4]] # None => requests[1].data.fields[e[3]] = call.args[e[4]]

\* update_task(taskId="42") with taskId_body left at None and the other
\* fields supplied: the path has 42, the body has no taskId.
C23_Witness ==
  /\ Done /\ Sent
  /\ call.op = "update_task"
  /\ call.args["taskId"] = PyStr("42")
  /\ call.args["taskId_body"] = None
  /\ call.args["taskName"] = PyStr("y")
  /\ requests[1].url = "https://api.rocketlane.com/api/1.0/tasks/42"
  /\ "taskId" \notin DOMAIN requests[1].data.fields
  /\ "taskName" \in DOMAIN requests[1].data.fields

\* update_time_entry(timeEntryId="42", timeEntryId_body=0).
C23_WitnessBoth ==
  /\ Done /\ Sent
  /\ call.op = "update_time_entry"
  /\ call.args["timeEntryId"] = PyStr("42")
  /\ call.args["timeEntryId_body"] = PyZero
  /\ requests[1].data.fields["timeEntryId"] = PyZero

\* C24: in update_space_document and create_space_document the body field
\* url carries the caller's url argument (absent when it is None), and the
\* request goes to the space-documents endpoint, never to that argument.
C24_UrlArgumentOnlyInBody ==
  (Done /\ Sent /\ call.op \in {"update_space_document", "create_space_document"}) =>
    /\ "url" \in DOMAIN requests[1].data.fields <=> call.args["url"] # None
    /\ call.args["url"] # None => requests[1].data.fields["url"] = call.args["url"]
    /\ requests[1].url =
         IF call.op = "create_space_document"
           THEN "https://api.rocketlane.com/api/1.0/space-documents"
           ELSE "https://api.rocketlane.com/api/1.0/space-documents/"
                  \o Format(call.args["spaceDocumentId"])
    /\ PyStr(requests[1].url) # call.args["url"]

\* update_space_document(spaceDocumentId="42", url="x").
C24_Witness ==
  /\ Done /\ Sent
  /\ call.op = "update_space_document"
  /\ call.args["spaceDocumentId"] = PyStr("42")
  /\ call.args["url"] = PyStr("x")
  /\ requests[1].url = "https://api.rocketlane.com/api/1.0/space-documents/42"
  /\ requests[1].data.fields["url"] = PyStr("x")

\* C25: null-stripping of a body is shallow: a top-level key is removed only
\* when its value is None; a list or dict is sent as given, with the None
\* nested in it, and an empty string, list or dict is sent, not dropped.
C25_BodyStrippingShallow ==
  (Done /\ Sent /\ Op.bodykind = "dict" /\ Op.method \in {"_post", "_put"}) =>
    \A i \in DOMAIN Op.body :
      LET k == Op.body[i][1]
          v == call.args[Op.body[i][2]]
      IN /\ k \in DOMAIN requests[1].data.fields <=> v # None
         /\ v \in StructuredValues \cup {PyStr("")}
              => requests[1].data.fields[k] = v

\* add_members with a members list holding a None, next to customers.
C25_Witness ==
  /\ Done /\ Sent
  /\ call.op = "add_members"
  /\ call.args["members"] = <<"list", "a", "None", "b">>
  /\ requests[1].data.fields["members"] = <<"list", "a", "None", "b">>

\* create_task with an empty dict for project.
C25_WitnessEmpty ==
  /\ Done /\ Sent
  /\ call.op = "create_task"
  /\ call.args["project"] = <<"dict">>
  /\ requests[1].data.fields["project"] = <<"dict">>

----------------------------------------------------------------------------
(* The choice of the key                                                   *)

NonEmpty(v) == v # None /\ v # PyStr("")

\* C26: with values under more than one accepted name, the api-key header is
\* the value under api_key if that is non-empty, otherwise the value under
\* API_KEY if that is non-empty, otherwise the value under apiKey.
C26_KeyPrecedence ==
  (HeadersDone /\ integration.configured) =>
    LET a == Get(Credentials, "api_key")
        b == Get(Credentials, "API_KEY")
        c == Get(Credentials, "apiKey")
    IN /\ NonEmpty(a) => headers["api-key"] = a
       /\ (~NonEmpty(a) /\ NonEmpty(b)) => headers["api-key"] = b
       /\ (~NonEmpty(a) /\ ~NonEmpty(b) /\ NonEmpty(c)) => headers["api-key"] = c

\* The three names hold three values, api_key empty: API_KEY wins over apiKey.
C26_Witness ==
  /\ HeadersDone
  /\ integration.configured
  /\ AcceptedNames \subseteq DOMAIN Credentials
  /\ Credentials["api_key"] = PyStr("")
  /\ Credentials["API_KEY"] = PyStr("k2")
  /\ Credentials["apiKey"] = PyStr("k1")
  /\ headers["api-key"] = PyStr("k2")

\* C27: a mapping in which every accepted name that is present holds an
\* empty value is treated as a mapping with no key: the degraded headers are
\* returned and the error is logged; and no header set ever has an api-key
\* field with an empty value.
C27_EmptyKeyIsNoKey ==
  /\ (HeadersDone /\ integration.configured
        /\ \A k \in DOMAIN Credentials \cap AcceptedNames : Credentials[k] = PyStr(""))
     => /\ outcome.kind = "return"
        /\ headers = DegradedHeaders
        /\ log = <<LogRecord("ERROR",
                     "RocketlaneApp: API key not found in integration credentials.")>>
  /\ (HeadersDone /\ "api-key" \in DOMAIN headers) => NonEmpty(headers["api-key"])

\* api_key and apiKey are both present and both empty.
C27_Witness ==
  /\ HeadersDone
  /\ integration.configured
  /\ DOMAIN Credentials \cap AcceptedNames = {"api_key", "apiKey"}
  /\ Credentials["api_key"] = PyStr("")
  /\ Credentials["apiKey"] = PyStr("")
  /\ headers = DegradedHeaders
  /\ log[1].level = "ERROR"

----------------------------------------------------------------------------
(* Where the key goes                                                      *)

\* The string sub occurs in the string s.
Contains(s, sub) ==
  \E i \in 1..(Len(s) - Len(sub) + 1) : SubSeq(s, i, i + Len(sub) - 1) = sub

\* The key in force.
KeyNow == Credentials["api_key"]

----------------------------------------------------------------------------
(* No cached credential                                                    *)

\* C29: _get_headers caches nothing: a call made after the credentials
\* changed returns headers that follow from the credentials of that moment:
\* the api-key is the first non-empty value the mapping holds now under
\* api_key, API_KEY, apiKey, and there is no api-key when it holds none,
\* whatever an earlier call returned.
C29_HeadersFollowCurrentCredentials ==
  (HeadersDone /\ last.op = "_get_headers") =>
    LET now == PyOr(PyOr(Get(Credentials, "api_key"), Get(Credentials, "API_KEY")),
                    Get(Credentials, "apiKey"))
    IN /\ ~integration.configured => headers = EmptyMap
       /\ (integration.configured /\ ~NonEmpty(now)) => headers = DegradedHeaders
       /\ (integration.configured /\ NonEmpty(now)) =>
            headers = [h \in {"api-key", "Content-Type", "Cache-Control"} |->
                         IF h = "api-key" THEN now ELSE DegradedHeaders[h]]
       /\ Len(log) = 1

\* A first call returned the key k1; the key was replaced by k2 under another
\* name, and the second call returned k2.
C29_Witness ==
  /\ HeadersDone
  /\ last.op = "_get_headers"
  /\ "api-key" \in DOMAIN last.headers
  /\ last.headers["api-key"] = PyStr("k1")
  /\ Credentials = [k \in {"API_KEY"} |-> PyStr("k2")]
  /\ headers["api-key"] = PyStr("k2")

\* A first call returned a key; the key was removed, and the second call
\* returned the degraded headers.
C29_WitnessRemoved ==
  /\ HeadersDone
  /\ last.op = "_get_headers"
  /\ "api-key" \in DOMAIN last.headers
  /\ DOMAIN Credentials = {}
  /\ headers = DegradedHeaders

====
